---- MODULE Spec2Model ----
(***************************************************************************)
(* Per-flow serialization and trace tracking of the pcap transformer       *)
(* (pcap-cli/internal/transformer/flow_mutex.go).                          *)
(*                                                                         *)
(* Heap objects (carriers, traced flows, stream maps) are sequences whose  *)
(* index is the object's identity; a map entry holds such an index.        *)
(* Time is not measured: a timer may fire at any moment after it was       *)
(* armed, and the reaper may find any unlocked carrier old enough.         *)
(***************************************************************************)
EXTENDS Integers, Sequences, FiniteSets, TLC

\* ---------------------------------------------------------------- bounds
\* translator workers of the pool, carriers and traced flows ever allocated
NumWorkers == 2
MaxCarriers == 2
MaxTracedFlows == 2
\* how far below zero the responses of the workers may push activeRequests
MaxOverDecrement == 1
\* responses unlocked ahead of their requests in the scenarios applied to a
\* reachable state
MaxAhead == 2
\* the lookup on its own: sequence numbers 0 .. MaxKey in their unsigned
\* order, inner maps of up to MaxInnerKeys entries
MaxKey == 4
MaxInnerKeys == 3

\* ---------------------------------------------------------------- TCP flags
tcpFin == 1
tcpSyn == 2
tcpRst == 4
tcpPsh == 8
tcpAck == 16

Bits == {1, 2, 4, 8, 16, 32, 64, 128}

\* flags & mask # 0 on 8-bit values
AnyBit(flags, mask) ==
  \E b \in Bits : ((flags \div b) % 2 = 1) /\ ((mask \div b) % 2 = 1)

isConnectionTermination(tcpFlags) == AnyBit(tcpFlags, tcpFin + tcpRst)

isSynFinRst(tcpFlags) == AnyBit(tcpFlags, tcpSyn + tcpFin + tcpRst)

\* the flag combinations the workers are given: PSH|ACK, FIN|ACK, SYN, RST|ACK
SegmentFlags == {tcpPsh + tcpAck, tcpFin + tcpAck, tcpSyn, tcpRst + tcpAck}

\* ---------------------------------------------------------------- domains
Nil == 0
FlowIds == {1}
Workers == 1 .. NumWorkers
Streams == {1}
Traces == {1, 2}
Seqs == {1, 2}

EmptyMap == [k \in {} |-> Nil]

Put(m, k, v) == [x \in (DOMAIN m) \cup {k} |-> IF x = k THEN v ELSE m[x]]

\* traceAndSpan values: the span id plays no part in the protocol
traceAndSpan(t, s) == [traceID |-> t, streamID |-> s]

\* the map[uint32]*traceAndSpan arguments of UnlockWithTraceAndSpan: trace
\* contexts for some of the streams the segment carries
TSMaps(traces, streams) ==
  UNION { [ss -> traces] : ss \in SUBSET { streams[i] : i \in DOMAIN streams } }

\* the []uint32 stream arguments of UnlockWithTraceAndSpan
StreamLists == {<<>>} \cup { <<s>> : s \in Streams }

VARIABLES
  ctxDone,                    \* ctx.Done() is closed
  reaperAlive,                \* the startReaper goroutine has not returned
  MutexMap,                   \* fm.MutexMap: flow id -> carrier
  carriers,                   \* every flowLockCarrier ever allocated
  tracedFlows,                \* every TracedFlow ever allocated
  flowToStreamToSequenceMap,  \* outer index: flow id -> stream map object
  stsms,                      \* every stream map (STSM) ever allocated
  untrackTimers,              \* per carrier: the deferred untrackConnection
  workers,                    \* per translator worker: position in lock/unlock
  lookup,                     \* what the last TraceAndSpanProvider call returned
  releaseWins,                \* per carrier: unlocks that returned true
  traceToHttpRequestMap,      \* fm.traceToHttpRequestMap: the trace ids it holds
  untracks                    \* per carrier: calls of untrackConnection

vars ==
  << ctxDone, reaperAlive, MutexMap, carriers, tracedFlows,
     flowToStreamToSequenceMap, stsms, untrackTimers, workers,
     lookup, releaseWins, traceToHttpRequestMap, untracks >>

\* ---------------------------------------------------------------- objects
newFlowLockCarrier(flowID) ==
  [ flowID |-> flowID,
    mu |-> Nil,                \* Nil: unlocked, else the worker holding it
    wg |-> 0,
    released |-> FALSE,
    lastUnlockedAt |-> FALSE,  \* FALSE: nil; lastLockedAt is never read
    isHTTP2 |-> FALSE,
    activeRequests |-> 0 ]

\* unblocker: "armed" | "stopped" | "fired" (callback started, before its CAS)
\*          | "locking" (callback won the CAS, at lock.mu.Lock()) | "locked" | "done"
newTracedFlow(lock, flowID, ts) ==
  [ lock |-> lock,
    flowID |-> flowID,
    ts |-> ts,
    isActive |-> TRUE,
    unblocker |-> "armed" ]

IdleWorker ==
  [ pc |-> "idle", carrier |-> Nil, flowID |-> Nil, tcpFlags |-> 0,
    ref |-> 0, stsm |-> Nil, activeRequests |-> 0 ]

NoLookup ==
  [ worker |-> Nil, stream |-> Nil, tf |-> Nil, ts |-> Nil, ok |-> FALSE ]

Init ==
  /\ ctxDone = FALSE
  /\ reaperAlive = TRUE
  /\ MutexMap = [f \in FlowIds |-> Nil]
  /\ carriers = <<>>
  /\ tracedFlows = <<>>
  /\ flowToStreamToSequenceMap = [f \in FlowIds |-> Nil]
  /\ stsms = <<>>
  /\ untrackTimers = <<>>
  /\ workers = [w \in Workers |-> IdleWorker]
  /\ lookup = NoLookup
  /\ releaseWins = <<>>
  /\ traceToHttpRequestMap = {}
  /\ untracks = <<>>

\* ---------------------------------------------------------------- heap view
\* The part of the state a handler reads and writes, as one value, so that a
\* handler is the composition of the calls it makes.
Heap ==
  [ MutexMap |-> MutexMap,
    carriers |-> carriers,
    tracedFlows |-> tracedFlows,
    ftstsm |-> flowToStreamToSequenceMap,
    stsms |-> stsms,
    untrackTimers |-> untrackTimers,
    releaseWins |-> releaseWins,
    traceToHttpRequestMap |-> traceToHttpRequestMap,
    untracks |-> untracks,
    activeRequests |-> 0,      \* the handler's local `activeRequests`
    released |-> FALSE,        \* the handler's bool result
    panicked |-> FALSE ]

Commit(h) ==
  /\ MutexMap' = h.MutexMap
  /\ carriers' = h.carriers
  /\ tracedFlows' = h.tracedFlows
  /\ flowToStreamToSequenceMap' = h.ftstsm
  /\ stsms' = h.stsms
  /\ untrackTimers' = h.untrackTimers
  /\ releaseWins' = h.releaseWins
  /\ traceToHttpRequestMap' = h.traceToHttpRequestMap
  /\ untracks' = h.untracks

\* ---------------------------------------------------------------- atomics
\* a plain store in place of the compare-and-swap
releasedStore(h, c) ==
  [ok |-> TRUE, h |-> [h EXCEPT !.carriers[c].released = TRUE]]

\* carrier.released.CompareAndSwap(false, true): <<swapped, heap after>>
releasedCompareAndSwap(h, c) ==
  IF h.carriers[c].released
  THEN [ok |-> FALSE, h |-> h]
  ELSE [ok |-> TRUE, h |-> [h EXCEPT !.carriers[c].released = TRUE]]

\* tf.isActive.CompareAndSwap(true, false)
isActiveCompareAndSwap(h, t) ==
  IF h.tracedFlows[t].isActive
  THEN [ok |-> TRUE, h |-> [h EXCEPT !.tracedFlows[t].isActive = FALSE]]
  ELSE [ok |-> FALSE, h |-> h]

\* tf.unblocker.Stop(): true only when the timer had not fired yet
unblockerStop(h, t) ==
  IF h.tracedFlows[t].unblocker = "armed"
  THEN [ok |-> TRUE, h |-> [h EXCEPT !.tracedFlows[t].unblocker = "stopped"]]
  ELSE [ok |-> FALSE, h |-> h]

\* wg.Add(delta): the counter keeps the new value also when Add panics on a
\* negative one
wgAdd(h, c, delta) ==
  [h EXCEPT !.carriers[c].wg = @ + delta,
            !.panicked = @ \/ (h.carriers[c].wg + delta < 0)]

wgDone(h, c) == wgAdd(h, c, -1)

activeRequestsAdd(h, c, delta) ==
  [h EXCEPT !.carriers[c].activeRequests = @ + delta]

\* ---------------------------------------------------------------- index
\* haxmap GetOrCompute on a stream map: the value function runs, and stores
\* tf under the key, only when the stream has no entry yet
sequenceToTracedFlowMapProvider(streamToSequenceMap, streamID, key, tf) ==
  IF streamID \in DOMAIN streamToSequenceMap
  THEN streamToSequenceMap
  ELSE Put(streamToSequenceMap, streamID, Put(EmptyMap, key, tf))

\* the three GetOrCompute levels of trackConnection for the new traced flow tf
trackIndex(h, flowID, streamID, key, tf) ==
  IF h.ftstsm[flowID] = Nil
  THEN [h EXCEPT
          !.stsms = Append(@,
             sequenceToTracedFlowMapProvider(EmptyMap, streamID, key, tf)),
          !.ftstsm[flowID] = Len(h.stsms) + 1]
  ELSE [h EXCEPT
          !.stsms[h.ftstsm[flowID]] =
             sequenceToTracedFlowMapProvider(@, streamID, key, tf)]

\* trackConnection for a non-nil ts: the new traced flow is the last one of
\* h.tracedFlows
trackConnection(h, lock, flowID, key, ts) ==
  LET tf == Len(h.tracedFlows) + 1
      h1 == [h EXCEPT
               !.tracedFlows = Append(@, newTracedFlow(lock, flowID, ts))]
  IN  trackIndex(h1, flowID, ts.streamID, key, tf)

RECURSIVE RangeFoldFirstVisited(_, _, _, _, _)
\* a Range that keeps the first entry it visits as the fallback
RangeFoldFirstVisited(inner, keys, ref, tracedFlow, lastTracedFlow) ==
  IF keys = {}
  THEN <<tracedFlow, lastTracedFlow>>
  ELSE LET r == CHOOSE k \in keys : \A o \in keys : k <= o
       IN  RangeFoldFirstVisited(inner, keys \ {r}, ref,
                                 IF ref > r THEN inner[r] ELSE tracedFlow,
                                 IF lastTracedFlow = Nil THEN inner[r]
                                 ELSE lastTracedFlow)

RECURSIVE RangeFoldFirstBelow(_, _, _, _, _)
\* a Range that stops updating at the first key below the reference
RangeFoldFirstBelow(inner, keys, ref, tracedFlow, lastTracedFlow) ==
  IF keys = {}
  THEN <<tracedFlow, lastTracedFlow>>
  ELSE LET r == CHOOSE k \in keys : \A o \in keys : k <= o
       IN  RangeFoldFirstBelow(inner, keys \ {r}, ref,
                               IF ref > r /\ tracedFlow = Nil THEN inner[r]
                               ELSE tracedFlow,
                               inner[r])

RECURSIVE RangeFold(_, _, _, _, _)
\* sttsm.Range in ascending key order: <<tracedFlow, lastTracedFlow>>
RangeFold(inner, keys, ref, tracedFlow, lastTracedFlow) ==
  IF keys = {}
  THEN <<tracedFlow, lastTracedFlow>>
  ELSE LET r == CHOOSE k \in keys : \A o \in keys : k <= o
       IN  RangeFold(inner, keys \ {r}, ref,
                     IF ref > r THEN inner[r] ELSE tracedFlow,
                     inner[r])

\* a lookup that reports found whenever the flow has a stream map
tracedFlowProviderFoundWithoutStream(h, stsm, ref, stream) ==
  IF stsm = Nil
  THEN [tf |-> Nil, ok |-> FALSE]
  ELSE IF stream \notin DOMAIN h.stsms[stsm]
  THEN [tf |-> Nil, ok |-> TRUE]
  ELSE LET inner == h.stsms[stsm][stream]
           found == RangeFold(inner, DOMAIN inner, ref, Nil, Nil)
       IN  [tf |-> IF found[1] = Nil THEN found[2] ELSE found[1], ok |-> TRUE]

\* the closure getTracedFlow returns, bound to the stream map found at lock
\* time (stsm, Nil when the flow had none) and to ref
tracedFlowProvider(h, stsm, ref, stream) ==
  IF stsm = Nil \/ stream \notin DOMAIN h.stsms[stsm]
  THEN [tf |-> Nil, ok |-> FALSE]
  ELSE LET inner == h.stsms[stsm][stream]
           found == RangeFold(inner, DOMAIN inner, ref, Nil, Nil)
       IN  [tf |-> IF found[1] = Nil THEN found[2] ELSE found[1], ok |-> TRUE]

\* ---------------------------------------------------------------- untrack
Min(a, b) == IF a < b THEN a ELSE b

RECURSIVE untrackFlows(_, _)
\* for every traced flow of the sub-tree: CAS isActive, stop its unblocker,
\* delete its trace id from the registry
untrackFlows(h, tfs) ==
  IF tfs = {}
  THEN h
  ELSE LET t == CHOOSE x \in tfs : \A o \in tfs : x <= o
           cas == isActiveCompareAndSwap(h, t)
           h1 == IF cas.ok THEN unblockerStop(cas.h, t).h ELSE h
       IN  untrackFlows([h1 EXCEPT !.traceToHttpRequestMap =
                                     @ \ {h.tracedFlows[t].ts.traceID}],
                        tfs \ {t})

\* untrackConnection, the ForEach over the flow's streams: every traced flow
\* is visited and every inner map emptied, the streams still in place
untrackForEach(h, flowID) ==
  LET stsm == h.ftstsm[flowID]
  IN  IF stsm = Nil
      THEN h
      ELSE LET m == h.stsms[stsm]
               tfs == UNION { { m[s][k] : k \in DOMAIN m[s] } : s \in DOMAIN m }
               h1 == untrackFlows(h, tfs)
           IN  [h1 EXCEPT !.stsms[stsm] = [s \in DOMAIN m |-> EmptyMap]]

\* untrackConnection, after the ForEach: the streams are deleted, then the
\* entry of the flow
untrackDel(h, flowID) ==
  LET stsm == h.ftstsm[flowID]
  IN  IF stsm = Nil
      THEN h
      ELSE [h EXCEPT !.stsms[stsm] = EmptyMap, !.ftstsm[flowID] = Nil]

\* untrackConnection, first part: empty and remove the flow's sub-tree
untrackIndex(h, flowID) == untrackDel(untrackForEach(h, flowID), flowID)

RECURSIVE untrackDrain(_, _)
\* untrackConnection, the drain loop; a panic of wg.Done ends the function
untrackDrain(h, lock) ==
  IF h.carriers[lock].activeRequests > 0
  THEN LET h1 == wgDone(activeRequestsAdd(h, lock, -1), lock)
       IN  IF h1.panicked THEN h1 ELSE untrackDrain(h1, lock)
  ELSE h

\* an untrackConnection that leaves the carrier in the carrier map
mutexMapKeep(h, flowID) == h

mutexMapDel(h, flowID) == [h EXCEPT !.MutexMap[flowID] = Nil]

\* untrackConnection run in one piece (its caller holds lock.mu); the
\* deferred recover() swallows a panic
untrackConnection(h, flowID, lock) ==
  LET h0 == [h EXCEPT !.untracks[lock] = Min(@ + 1, 2)]
      h1 == untrackDrain(untrackIndex(h0, flowID), lock)
  IN  IF h1.panicked
      THEN [h1 EXCEPT !.panicked = FALSE]
      ELSE mutexMapDel(h1, flowID)

\* ---------------------------------------------------------------- unlock
\* the _unlock closure of lock
_unlock(h, carrier) ==
  [h EXCEPT !.carriers[carrier].mu = Nil,
            !.carriers[carrier].lastUnlockedAt = TRUE]

\* a release winner that never defers untrackConnection
releaseUntrackNow(h, flowID, carrier) ==
  untrackConnection(h, flowID, carrier)

\* a release winner that always defers untrackConnection
releaseUntrackLater(h, flowID, carrier) ==
  [h EXCEPT !.untrackTimers[carrier] = "armed"]

\* the timer or the immediate call the release winner makes
releaseUntrack(h, flowID, carrier) ==
  IF ctxDone
  THEN untrackConnection(h, flowID, carrier)
  ELSE [h EXCEPT !.untrackTimers[carrier] = "armed"]

\* a release that does not look at activeRequests
UnlockAndReleaseFNAnyCount(h, flowID, carrier) ==
  LET cas == releasedCompareAndSwap(h, carrier)
  IN  IF cas.ok
      THEN _unlock([releaseUntrack(cas.h, flowID, carrier) EXCEPT
                      !.released = TRUE,
                      !.releaseWins[carrier] = Min(@ + 1, 2)],
                   carrier)
      ELSE _unlock([h EXCEPT !.released = FALSE], carrier)

UnlockAndReleaseFN(h, flowID, carrier) ==
  LET cas == releasedCompareAndSwap(h, carrier)
  IN  IF h.carriers[carrier].activeRequests = 0 /\ cas.ok
      THEN _unlock([releaseUntrack(cas.h, flowID, carrier) EXCEPT
                      !.released = TRUE,
                      !.releaseWins[carrier] = Min(@ + 1, 2)],
                   carrier)
      ELSE _unlock([h EXCEPT !.released = FALSE], carrier)

\* an unlock by flags that releases whatever the flags are
UnlockWithTCPFlagsFNAlwaysRelease(h, flowID, carrier, tcpFlags) ==
  UnlockAndReleaseFN(h, flowID, carrier)

UnlockWithTCPFlagsFN(h, flowID, carrier, tcpFlags) ==
  IF isConnectionTermination(tcpFlags)
  THEN UnlockAndReleaseFN(h, flowID, carrier)
  ELSE _unlock([h EXCEPT !.released = FALSE], carrier)

\* the handle's Unlock: UnlockWithTCPFlagsFN with the flags given to lock
UnlockFn(h, wk) ==
  UnlockWithTCPFlagsFN(h, wk.flowID, wk.carrier, wk.tcpFlags)

\* a request branch that takes a token whatever activeRequests becomes
requestStreamAlwaysAdd(h, wk, stream, requestTS) ==
  IF stream \notin DOMAIN requestTS
  THEN h
  ELSE LET ts == traceAndSpan(requestTS[stream], stream)
           h1 == trackConnection(h, wk.carrier, wk.flowID, wk.ref, ts)
           h2 == activeRequestsAdd(h1, wk.carrier, 1)
       IN  wgAdd([h2 EXCEPT
                    !.activeRequests = h2.carriers[wk.carrier].activeRequests],
                 wk.carrier, 1)

\* a request branch that leaves the traced flow of an absorbed request active
requestStreamKeepsUnblocker(h, wk, stream, requestTS) ==
  IF stream \notin DOMAIN requestTS
  THEN h
  ELSE LET ts == traceAndSpan(requestTS[stream], stream)
           h1 == trackConnection(h, wk.carrier, wk.flowID, wk.ref, ts)
           h2 == activeRequestsAdd(h1, wk.carrier, 1)
           h3 == [h2 EXCEPT
                    !.activeRequests = h2.carriers[wk.carrier].activeRequests]
       IN  IF h3.activeRequests > 0 THEN wgAdd(h3, wk.carrier, 1) ELSE h3

\* UnlockWithTraceAndSpan, the body of the loop over requestStreams
requestStream(h, wk, stream, requestTS) ==
  IF stream \notin DOMAIN requestTS
  THEN h
  ELSE LET ts == traceAndSpan(requestTS[stream], stream)
           h1 == trackConnection(h, wk.carrier, wk.flowID, wk.ref, ts)
           tf == Len(h1.tracedFlows)
           h2 == activeRequestsAdd(h1, wk.carrier, 1)
           h3 == [h2 EXCEPT
                    !.activeRequests = h2.carriers[wk.carrier].activeRequests]
       IN  IF h3.activeRequests > 0
           THEN wgAdd(h3, wk.carrier, 1)
           ELSE LET cas == isActiveCompareAndSwap(h3, tf)
                IN  IF cas.ok THEN unblockerStop(cas.h, tf).h ELSE h3

\* a response branch that wins the traced flow and keeps the token
responseMatchWithoutDone(h, carrier, tf, ts) ==
  IF tf = Nil \/ h.tracedFlows[tf].ts.traceID # ts.traceID
  THEN h
  ELSE LET cas == isActiveCompareAndSwap(h, tf)
       IN  IF cas.ok THEN unblockerStop(cas.h, tf).h ELSE h

\* the tail of the `&&` chain of the response branch once activeRequests >= 0
responseMatch(h, carrier, tf, ts) ==
  IF tf = Nil
  THEN [h EXCEPT !.panicked = TRUE]      \* *tf.ts.traceID on a nil tf
  ELSE IF h.tracedFlows[tf].ts.traceID # ts.traceID
  THEN h
  ELSE LET cas == isActiveCompareAndSwap(h, tf)
           stop == unblockerStop(cas.h, tf)
       IN  IF ~cas.ok THEN h
           ELSE IF ~stop.ok THEN stop.h
           ELSE wgDone(stop.h, carrier)

\* a loop body whose lookup reads the index as it is at the response
responseStreamCurrentIndex(h, wk, stream, responseTS) ==
  IF stream \notin DOMAIN responseTS
  THEN h
  ELSE LET ts == traceAndSpan(responseTS[stream], stream)
           found == tracedFlowProvider(h, h.ftstsm[wk.flowID], wk.ref,
                                       ts.streamID)
           h1 == activeRequestsAdd(h, wk.carrier, -1)
           h2 == [h1 EXCEPT
                    !.activeRequests = h1.carriers[wk.carrier].activeRequests]
       IN  IF ~found.ok THEN h
           ELSE IF h2.activeRequests >= 0
           THEN responseMatch(h2, wk.carrier, found.tf, ts)
           ELSE h2

\* UnlockWithTraceAndSpan, the body of the loop over responseStreams
responseStream(h, wk, stream, responseTS) ==
  IF stream \notin DOMAIN responseTS
  THEN h
  ELSE LET ts == traceAndSpan(responseTS[stream], stream)
           found == tracedFlowProvider(h, wk.stsm, wk.ref, ts.streamID)
           h1 == activeRequestsAdd(h, wk.carrier, -1)
           h2 == [h1 EXCEPT
                    !.activeRequests = h1.carriers[wk.carrier].activeRequests]
       IN  IF ~found.ok THEN h
           ELSE IF h2.activeRequests >= 0
           THEN responseMatch(h2, wk.carrier, found.tf, ts)
           ELSE h2

RECURSIVE requestStreamsLoop(_, _, _, _)
requestStreamsLoop(h, wk, streams, requestTS) ==
  IF streams = <<>> \/ h.panicked
  THEN h
  ELSE requestStreamsLoop(requestStream(h, wk, Head(streams), requestTS),
                          wk, Tail(streams), requestTS)

RECURSIVE responseStreamsLoop(_, _, _, _)
responseStreamsLoop(h, wk, streams, responseTS) ==
  IF streams = <<>> \/ h.panicked
  THEN h
  ELSE responseStreamsLoop(responseStream(h, wk, Head(streams), responseTS),
                           wk, Tail(streams), responseTS)

\* the handle's UnlockWithTraceAndSpan for a segment without SYN, FIN, RST; a
\* panic leaves before UnlockWithTCPFlagsFN is reached
UnlockWithTraceAndSpanTracking(h, wk, tcpFlags, isHTTP2, requestStreams, responseStreams, requestTS, responseTS) ==
  LET h0 == [h EXCEPT
               !.carriers[wk.carrier].isHTTP2 = isHTTP2,
               !.activeRequests = h.carriers[wk.carrier].activeRequests]
      h1 == requestStreamsLoop(h0, wk, requestStreams, requestTS)
      h2 == responseStreamsLoop(h1, wk, responseStreams, responseTS)
      ar == h2.activeRequests
  IN  IF h2.panicked
      THEN h2
      ELSE [UnlockWithTCPFlagsFN(h2, wk.flowID, wk.carrier, tcpFlags) EXCEPT
              !.activeRequests = ar]

\* a fallback that tracks a request on stream 1 as the tracking variant does
UnlockWithTraceAndSpanFallbackTracking(h, wk, tcpFlags) ==
  UnlockWithTraceAndSpanTracking(h, wk, tcpFlags, TRUE, <<1>>, <<>>,
                                 [s \in {1} |-> 1], EmptyMap)

\* the handle's UnlockWithTraceAndSpan for a segment with SYN, FIN or RST
UnlockWithTraceAndSpanFallback(h, wk, tcpFlags) ==
  [UnlockWithTCPFlagsFN(h, wk.flowID, wk.carrier, tcpFlags) EXCEPT
     !.activeRequests = wk.activeRequests]

\* ---------------------------------------------------------------- lock
\* lock: MutexMap.GetOrCompute, then the select in front of wg.Wait()
lockGetOrCompute(env, w, flowID, tcpFlags, seq, ack, local) ==
  /\ workers[w].pc = "idle"
  /\ MutexMap[flowID] # Nil \/ Len(carriers) < env.carriers
  /\ LET loaded == MutexMap[flowID] # Nil
         carrier == IF loaded THEN MutexMap[flowID] ELSE Len(carriers) + 1
     IN  /\ carriers' = IF loaded THEN carriers
                        ELSE Append(carriers, newFlowLockCarrier(flowID))
         /\ untrackTimers' = IF loaded THEN untrackTimers
                             ELSE Append(untrackTimers, "none")
         /\ releaseWins' = IF loaded THEN releaseWins
                           ELSE Append(releaseWins, 0)
         /\ untracks' = IF loaded THEN untracks ELSE Append(untracks, 0)
         /\ MutexMap' = [MutexMap EXCEPT ![flowID] = carrier]
         /\ workers' = [workers EXCEPT ![w] =
               [ pc |-> IF isConnectionTermination(tcpFlags) /\ ~ctxDone
                        THEN "wait" ELSE "acquire",
                 carrier |-> carrier,
                 flowID |-> flowID,
                 tcpFlags |-> tcpFlags,
                 ref |-> IF local THEN ack ELSE seq,
                 stsm |-> Nil,
                 activeRequests |-> 0 ]]
  /\ UNCHANGED << ctxDone, reaperAlive, tracedFlows,
                  flowToStreamToSequenceMap, stsms, lookup,
                  traceToHttpRequestMap >>

\* a lock that takes the mutex first and waits on the wait-group with it
lockWaitWithMutex(w) ==
  /\ workers[w].pc = "wait"
  /\ carriers[workers[w].carrier].mu = Nil
  /\ carriers' = [carriers EXCEPT ![workers[w].carrier].mu = w]
  /\ UNCHANGED << ctxDone, reaperAlive, MutexMap, tracedFlows,
                  flowToStreamToSequenceMap, stsms, untrackTimers, workers,
                  lookup, releaseWins, traceToHttpRequestMap, untracks >>

\* lock: wg.Wait() returns
lockWait(w) ==
  /\ workers[w].pc = "wait"
  /\ carriers[workers[w].carrier].wg = 0
  /\ workers' = [workers EXCEPT ![w].pc = "acquire"]
  /\ UNCHANGED << ctxDone, reaperAlive, MutexMap, carriers, tracedFlows,
                  flowToStreamToSequenceMap, stsms, untrackTimers,
                  lookup, releaseWins, traceToHttpRequestMap,
                  untracks >>

\* lock: mu.Lock() returns, getTracedFlow binds the lookup, the handle is built
lockAcquire(w) ==
  LET wk == workers[w]
  IN  /\ wk.pc = "acquire"
      /\ carriers[wk.carrier].mu = Nil
      /\ carriers' = [carriers EXCEPT ![wk.carrier].mu = w]
      /\ workers' = [workers EXCEPT ![w] =
            [wk EXCEPT
               !.pc = "held",
               !.stsm = flowToStreamToSequenceMap[wk.flowID],
               !.activeRequests =
                  IF isSynFinRst(wk.tcpFlags)
                  THEN carriers[wk.carrier].activeRequests ELSE 0]]
      /\ UNCHANGED << ctxDone, reaperAlive, MutexMap, tracedFlows,
                      flowToStreamToSequenceMap, stsms, untrackTimers,
                      lookup, releaseWins, traceToHttpRequestMap,
                  untracks >>

\* what every unlock leaves behind: the heap, and the worker back in its pool
\* (or dead in a panic, the mutex still held); h.released and h.activeRequests
\* are the values it returns
Return(w, h) ==
  /\ Commit(h)
  /\ workers' = [workers EXCEPT ![w] =
        IF h.panicked THEN [workers[w] EXCEPT !.pc = "panicked"]
        ELSE IdleWorker]
  /\ UNCHANGED << ctxDone, reaperAlive, lookup >>

Unlock(w) ==
  LET wk == workers[w]
  IN  /\ wk.pc = "held"
      /\ Return(w, UnlockFn(Heap, wk))

UnlockWithTCPFlags(w, tcpFlags) ==
  LET wk == workers[w]
  IN  /\ wk.pc = "held"
      /\ Return(w, UnlockWithTCPFlagsFN(Heap, wk.flowID, wk.carrier, tcpFlags))

UnlockAndRelease(w) ==
  LET wk == workers[w]
  IN  /\ wk.pc = "held"
      /\ Return(w, UnlockAndReleaseFN(Heap, wk.flowID, wk.carrier))

\* the requests of one call that get a traced flow
Tracked(requestStreams, requestTS) ==
  { i \in DOMAIN requestStreams : requestStreams[i] \in DOMAIN requestTS }

UnlockWithTraceAndSpan(env, w, tcpFlags, isHTTP2, requestStreams, responseStreams, requestTS, responseTS) ==
  LET wk == workers[w]
  IN  /\ wk.pc = "held"
      /\ IF isSynFinRst(wk.tcpFlags)
         THEN Return(w, UnlockWithTraceAndSpanFallback(Heap, wk, tcpFlags))
         ELSE LET h == UnlockWithTraceAndSpanTracking(Heap, wk, tcpFlags,
                           isHTTP2, requestStreams, responseStreams,
                           requestTS, responseTS)
              IN  /\ Len(tracedFlows)
                       + Cardinality(Tracked(requestStreams, requestTS))
                       <= env.tracedFlows
                  /\ h.carriers[wk.carrier].activeRequests
                       >= Min(carriers[wk.carrier].activeRequests,
                              0 - MaxOverDecrement)
                  /\ Return(w, h)

\* the TraceAndSpanProvider closure lock returns, called for a stream by the
\* holder of the handle; tf.ts on a nil tf panics
TraceAndSpanProvider(w, streamID) ==
  LET wk == workers[w]
      found == tracedFlowProvider(Heap, wk.stsm, wk.ref, streamID)
  IN  /\ wk.pc = "held"
      /\ IF found.ok /\ found.tf = Nil
         THEN /\ workers' = [workers EXCEPT ![w].pc = "panicked"]
              /\ UNCHANGED lookup
         ELSE /\ lookup' = [ worker |-> w, stream |-> streamID,
                             tf |-> found.tf,
                             ts |-> IF found.ok THEN tracedFlows[found.tf].ts
                                    ELSE Nil,
                             ok |-> found.ok ]
              /\ UNCHANGED workers
      /\ UNCHANGED << ctxDone, reaperAlive, MutexMap, carriers, tracedFlows,
                      flowToStreamToSequenceMap, stsms, untrackTimers,
                      releaseWins, traceToHttpRequestMap, untracks >>

\* request parsing, upstream of lock's handle: the worker that holds the flow
\* stores the request it parsed under its trace id
httpRequestStore(w, traceID) ==
  /\ workers[w].pc = "held"
  /\ traceID \notin traceToHttpRequestMap
  /\ traceToHttpRequestMap' = traceToHttpRequestMap \cup {traceID}
  /\ UNCHANGED << ctxDone, reaperAlive, MutexMap, carriers, tracedFlows,
                  flowToStreamToSequenceMap, stsms, untrackTimers, workers,
                  lookup, releaseWins, untracks >>

\* ---------------------------------------------------------------- timers
Others ==
  UNCHANGED << ctxDone, reaperAlive, workers, lookup >>

\* the unblocker's deadline passes: its callback is started
unblockerFire(t) ==
  /\ tracedFlows[t].unblocker = "armed"
  /\ Commit([Heap EXCEPT !.tracedFlows[t].unblocker = "fired"])
  /\ Others

\* the unblocker callback: isActive.CompareAndSwap(true, false)
unblockerCompareAndSwap(t) ==
  /\ tracedFlows[t].unblocker = "fired"
  /\ LET cas == isActiveCompareAndSwap(Heap, t)
     IN  Commit([cas.h EXCEPT !.tracedFlows[t].unblocker =
                   IF cas.ok THEN "locking" ELSE "done"])
  /\ Others

\* the unblocker callback from lock.mu.Lock() to the deferred Unlock
unblockerRun(t) ==
  LET lock == tracedFlows[t].lock
      h1 == activeRequestsAdd(Heap, lock, -1)
      h2 == IF h1.carriers[lock].activeRequests >= 0
            THEN wgDone(h1, lock) ELSE h1
  IN  /\ tracedFlows[t].unblocker = "locking"
      /\ carriers[lock].mu = Nil
      /\ Commit([h2 EXCEPT !.tracedFlows[t].unblocker = "done"])
      /\ Others

\* the value of mu while the callback of traced flow t holds the mutex
unblockerHolder(t) == NumWorkers + t

\* a callback that goes on without the mutex
unblockerLockWithoutMutex(t) ==
  /\ tracedFlows[t].unblocker = "locking"
  /\ Commit([Heap EXCEPT !.tracedFlows[t].unblocker = "locked"])
  /\ Others

\* the same callback in the steps other parties can see: lock.mu.Lock()
\* returns ...
unblockerLock(t) ==
  /\ tracedFlows[t].unblocker = "locking"
  /\ carriers[tracedFlows[t].lock].mu = Nil
  /\ Commit([Heap EXCEPT
               !.tracedFlows[t].unblocker = "locked",
               !.carriers[tracedFlows[t].lock].mu = unblockerHolder(t)])
  /\ Others

\* ... then activeRequests.Add(-1), wg.Done() and the deferred Unlock
unblockerAdd(t) ==
  LET lock == tracedFlows[t].lock
      h1 == activeRequestsAdd(Heap, lock, -1)
      h2 == IF h1.carriers[lock].activeRequests >= 0
            THEN wgDone(h1, lock) ELSE h1
  IN  /\ tracedFlows[t].unblocker = "locked"
      /\ Commit([h2 EXCEPT !.tracedFlows[t].unblocker = "done",
                           !.carriers[lock].mu = Nil])
      /\ Others

\* the release winner's timer fires: untrackConnection without the mutex,
\* first the index ...
untrackTimerFire(c) ==
  /\ untrackTimers[c] = "armed"
  /\ Commit([untrackIndex(Heap, carriers[c].flowID) EXCEPT
               !.untrackTimers[c] = "drain",
               !.untracks[c] = Min(@ + 1, 2)])
  /\ Others

\* the same callback in the steps a holder of the handle can see: first the
\* ForEach that empties the inner maps ...
untrackTimerForEach(c) ==
  /\ untrackTimers[c] = "armed"
  /\ Commit([untrackForEach(Heap, carriers[c].flowID) EXCEPT
               !.untrackTimers[c] = "del",
               !.untracks[c] = Min(@ + 1, 2)])
  /\ Others

\* ... then the deletion of the streams and of the flow's entry
untrackTimerDel(c) ==
  /\ untrackTimers[c] = "del"
  /\ Commit([untrackDel(Heap, carriers[c].flowID) EXCEPT
               !.untrackTimers[c] = "drain"])
  /\ Others

\* ... then the loop condition lock.activeRequests.Load() > 0, and after the
\* loop MutexMap.Del ...
untrackTimerLoad(c) ==
  /\ untrackTimers[c] = "drain"
  /\ Commit(IF carriers[c].activeRequests > 0
            THEN [Heap EXCEPT !.untrackTimers[c] = "draining"]
            ELSE [mutexMapDel(Heap, carriers[c].flowID) EXCEPT
                    !.untrackTimers[c] = "done"])
  /\ Others

\* ... and the loop body; a panic of wg.Done ends untrackConnection
untrackTimerDrain(c) ==
  LET h == wgDone(activeRequestsAdd(Heap, c, -1), c)
  IN  /\ untrackTimers[c] = "draining"
      /\ Commit([h EXCEPT !.untrackTimers[c] =
                    IF h.panicked THEN "done" ELSE "drain"])
      /\ Others

\* ---------------------------------------------------------------- reaper
\* a reaper whose loop goes on evicting after ctx.Done()
reaperTickAfterDone(flowID) ==
  LET carrier == MutexMap[flowID]
  IN  /\ carrier # Nil
      /\ carriers[carrier].lastUnlockedAt
      /\ carriers[carrier].mu = Nil
      /\ Commit(mutexMapDel(untrackConnection(Heap, flowID, carrier), flowID))
      /\ UNCHANGED << ctxDone, reaperAlive, workers, lookup >>

\* a ForEach callback that evicts without TryLock
reaperCallbackWithoutTryLock(h, flowID, old) ==
  LET carrier == h.MutexMap[flowID]
  IN  IF carrier = Nil \/ ~h.carriers[carrier].lastUnlockedAt \/ ~old
      THEN h
      ELSE mutexMapDel(untrackConnection(h, flowID, carrier), flowID)

\* the ForEach callback of a reaper tick on the entry of flowID, if any; old:
\* time.Since(*carrier.lastUnlockedAt) >= carrierDeadline. The mutex it took
\* with TryLock is free again when it returns (deferred Unlock)
reaperCallback(h, flowID, old) ==
  LET carrier == h.MutexMap[flowID]
  IN  IF \/ carrier = Nil
         \/ ~h.carriers[carrier].lastUnlockedAt
         \/ h.carriers[carrier].mu # Nil
      THEN h
      ELSE IF old
      THEN mutexMapDel(untrackConnection(h, flowID, carrier), flowID)
      ELSE h

\* the ForEach callback of a reaper tick on the entry of flowID, if any, once
\* the entry is old enough: skip, or TryLock, untrackConnection, MutexMap.Del
reaperForEach(h, flowID) == reaperCallback(h, flowID, TRUE)

\* one carrier of a reaper tick that is unlocked, free and old enough
reaperTick(flowID) ==
  LET carrier == MutexMap[flowID]
  IN  /\ reaperAlive
      /\ carrier # Nil
      /\ carriers[carrier].lastUnlockedAt
      /\ carriers[carrier].mu = Nil
      /\ Commit(reaperForEach(Heap, flowID))
      /\ Others

\* the reaper's select takes ctx.Done()
reaperExit ==
  /\ reaperAlive
  /\ ctxDone
  /\ reaperAlive' = FALSE
  /\ UNCHANGED << ctxDone, MutexMap, carriers, tracedFlows,
                  flowToStreamToSequenceMap, stsms, untrackTimers, workers,
                  lookup, releaseWins, traceToHttpRequestMap,
                  untracks >>

\* the surrounding program cancels the context
cancel ==
  /\ ~ctxDone
  /\ ctxDone' = TRUE
  /\ UNCHANGED << reaperAlive, MutexMap, carriers, tracedFlows,
                  flowToStreamToSequenceMap, stsms, untrackTimers, workers,
                  lookup, releaseWins, traceToHttpRequestMap,
                  untracks >>

\* ---------------------------------------------------------------- system
\* env: the workers that run, what they are given, and how many objects they
\* may allocate
WorkerNext(env) ==
  \/ \E w \in env.workers, flowID \in FlowIds, tcpFlags \in env.flags,
        seq \in env.seqs, ack \in env.seqs, local \in env.locals :
        lockGetOrCompute(env, w, flowID, tcpFlags, seq, ack, local)
  \/ \E w \in env.workers : lockWait(w)
  \/ \E w \in env.workers : lockAcquire(w)
  \/ \E w \in env.workers : Unlock(w)
  \/ \E w \in env.workers, tcpFlags \in env.flags :
        UnlockWithTCPFlags(w, tcpFlags)
  \/ \E w \in env.workers : UnlockAndRelease(w)
  \/ \E w \in env.workers, tcpFlags \in env.flags, isHTTP2 \in env.http2,
        requestStreams \in StreamLists, responseStreams \in StreamLists :
        \E requestTS \in TSMaps(env.traces, requestStreams),
           responseTS \in TSMaps(env.traces, responseStreams) :
           UnlockWithTraceAndSpan(env, w, tcpFlags, isHTTP2, requestStreams,
                                  responseStreams, requestTS, responseTS)

UnblockerNext ==
  \/ \E t \in DOMAIN tracedFlows : unblockerFire(t)
  \/ \E t \in DOMAIN tracedFlows : unblockerCompareAndSwap(t)
  \/ \E t \in DOMAIN tracedFlows : unblockerRun(t)

UntrackNext ==
  \/ \E c \in DOMAIN carriers : untrackTimerFire(c)
  \/ \E c \in DOMAIN carriers : untrackTimerLoad(c)
  \/ \E c \in DOMAIN carriers : untrackTimerDrain(c)

ReaperNext ==
  \/ \E flowID \in FlowIds : reaperTick(flowID)
  \/ reaperExit

Next(env) ==
  \/ WorkerNext(env)
  \/ UnblockerNext
  \/ UntrackNext
  \/ ReaperNext
  \/ cancel

\* one worker on a flow whose carrier is removed and re-created, one traced
\* request
Generations ==
  [ workers |-> {1}, carriers |-> MaxCarriers, tracedFlows |-> 1,
    flags |-> {tcpPsh + tcpAck, tcpFin + tcpAck},
    seqs |-> {1}, locals |-> {FALSE}, traces |-> Traces, http2 |-> {FALSE} ]

Spec == Init /\ [][Next(Generations)]_vars

\* the workers of the pool on one flow, without trace contexts: no traced flow
\* is created and untrackConnection finds nothing to drain
Concurrent ==
  [ workers |-> Workers, carriers |-> MaxCarriers, tracedFlows |-> 0,
    flags |-> {tcpPsh + tcpAck, tcpFin + tcpAck},
    seqs |-> {1}, locals |-> {FALSE}, traces |-> {}, http2 |-> {FALSE} ]

ConcurrentNext ==
  \/ WorkerNext(Concurrent)
  \/ \E c \in DOMAIN carriers : untrackTimerFire(c)
  \/ \E c \in DOMAIN carriers : untrackTimerLoad(c)
  \/ ReaperNext
  \/ cancel

ConcurrentSpec == Init /\ [][ConcurrentNext]_vars

\* one worker and the exchanges of one connection, the context never cancelled
\* and the connection never idle for carrierDeadline
Pairing ==
  [ workers |-> {1}, carriers |-> 1, tracedFlows |-> MaxTracedFlows,
    flags |-> {tcpPsh + tcpAck, tcpFin + tcpAck},
    seqs |-> Seqs, locals |-> {FALSE}, traces |-> Traces, http2 |-> {FALSE} ]

PairingNext ==
  \/ WorkerNext(Pairing)
  \/ UnblockerNext
  \/ UntrackNext

PairingSpec == Init /\ [][PairingNext]_vars

\* the exchanges of one connection when the context is never cancelled, every
\* handle is unlocked, every timer fires and every goroutine gets to run
Exchange ==
  [ workers |-> {1}, carriers |-> 1, tracedFlows |-> MaxTracedFlows,
    flags |-> {tcpPsh + tcpAck, tcpFin + tcpAck},
    seqs |-> {1}, locals |-> {FALSE}, traces |-> Traces, http2 |-> {FALSE} ]

Unlocks(env, w) ==
  \/ Unlock(w)
  \/ UnlockAndRelease(w)
  \/ \E tcpFlags \in env.flags : UnlockWithTCPFlags(w, tcpFlags)
  \/ \E tcpFlags \in env.flags, isHTTP2 \in env.http2,
        requestStreams \in StreamLists, responseStreams \in StreamLists :
        \E requestTS \in TSMaps(env.traces, requestStreams),
           responseTS \in TSMaps(env.traces, responseStreams) :
           UnlockWithTraceAndSpan(env, w, tcpFlags, isHTTP2, requestStreams,
                                  responseStreams, requestTS, responseTS)

FairNext ==
  \/ WorkerNext(Exchange)
  \/ UnblockerNext
  \/ UntrackNext
  \/ \E flowID \in FlowIds : reaperTick(flowID)

Fairness ==
  /\ \A w \in Exchange.workers :
        /\ WF_vars(lockWait(w))
        /\ SF_vars(lockAcquire(w))
        /\ WF_vars(Unlocks(Exchange, w))
  /\ \A t \in 1 .. Exchange.tracedFlows :
        /\ WF_vars(t \in DOMAIN tracedFlows /\ unblockerFire(t))
        /\ WF_vars(t \in DOMAIN tracedFlows /\ unblockerCompareAndSwap(t))
        /\ SF_vars(t \in DOMAIN tracedFlows /\ unblockerRun(t))
  /\ \A c \in 1 .. Exchange.carriers :
        /\ WF_vars(c \in DOMAIN carriers /\ untrackTimerFire(c))
        /\ WF_vars(c \in DOMAIN carriers /\ untrackTimerLoad(c))
        /\ WF_vars(c \in DOMAIN carriers /\ untrackTimerDrain(c))
  /\ WF_vars(\E flowID \in FlowIds : reaperTick(flowID))

FairSpec == Init /\ [][FairNext]_vars /\ Fairness

\* one worker on a flow without trace contexts while the surrounding program
\* shuts down: the context is cancelled at some point; handles are unlocked,
\* started callbacks run and the reaper's select takes ctx.Done() once it is
\* the only case ready, but no deadline is bound to pass (neither
\* trackingDeadline nor the reaper's ticker)
Shutdown ==
  [ workers |-> {1}, carriers |-> MaxCarriers, tracedFlows |-> 0,
    flags |-> {tcpPsh + tcpAck, tcpFin + tcpAck},
    seqs |-> {1}, locals |-> {FALSE}, traces |-> {}, http2 |-> {FALSE} ]

ShutdownNext ==
  \/ WorkerNext(Shutdown)
  \/ \E c \in DOMAIN carriers : untrackTimerFire(c)
  \/ \E c \in DOMAIN carriers : untrackTimerLoad(c)
  \/ ReaperNext
  \/ cancel

ShutdownFairness ==
  /\ \A w \in Shutdown.workers :
        /\ WF_vars(lockWait(w))
        /\ SF_vars(lockAcquire(w))
        /\ WF_vars(Unlocks(Shutdown, w))
  /\ \A c \in 1 .. Shutdown.carriers :
        WF_vars(c \in DOMAIN carriers /\ untrackTimerLoad(c))
  /\ WF_vars(reaperExit)

ShutdownSpec == Init /\ [][ShutdownNext]_vars /\ ShutdownFairness

\* one worker on one connection that goes idle: requests are stored in the
\* trace registry and tracked, unblockers fire, no release timer fires before
\* the reaper finds the carrier idle
Eviction ==
  [ workers |-> {1}, carriers |-> 1, tracedFlows |-> MaxTracedFlows,
    flags |-> {tcpPsh + tcpAck, tcpFin + tcpAck},
    seqs |-> {1}, locals |-> {FALSE}, traces |-> Traces, http2 |-> {FALSE} ]

EvictionNext ==
  \/ WorkerNext(Eviction)
  \/ \E w \in Eviction.workers, traceID \in Eviction.traces :
        httpRequestStore(w, traceID)
  \/ UnblockerNext
  \/ \E flowID \in FlowIds : reaperTick(flowID)

EvictionSpec == Init /\ [][EvictionNext]_vars

\* one worker and the exchanges of one connection while the release winner's
\* untrackConnection takes the index apart step by step
Teardown ==
  [ workers |-> {1}, carriers |-> 1, tracedFlows |-> MaxTracedFlows,
    flags |-> {tcpPsh + tcpAck, tcpFin + tcpAck},
    seqs |-> {1}, locals |-> {FALSE}, traces |-> Traces, http2 |-> {FALSE} ]

TeardownNext ==
  \/ WorkerNext(Teardown)
  \/ UnblockerNext
  \/ \E c \in DOMAIN carriers : untrackTimerForEach(c)
  \/ \E c \in DOMAIN carriers : untrackTimerDel(c)
  \/ \E c \in DOMAIN carriers : untrackTimerLoad(c)
  \/ \E c \in DOMAIN carriers : untrackTimerDrain(c)

TeardownSpec == Init /\ [][TeardownNext]_vars

\* one worker on a flow whose carrier the reaper removes and the next lock
\* re-creates, one traced request, and the unblocker callback in the steps
\* other parties can see
Callbacks ==
  [ workers |-> {1}, carriers |-> MaxCarriers, tracedFlows |-> 1,
    flags |-> {tcpPsh + tcpAck, tcpFin + tcpAck},
    seqs |-> {1}, locals |-> {FALSE}, traces |-> Traces, http2 |-> {FALSE} ]

CallbackNext ==
  \/ WorkerNext(Callbacks)
  \/ \E t \in DOMAIN tracedFlows : unblockerFire(t)
  \/ \E t \in DOMAIN tracedFlows : unblockerCompareAndSwap(t)
  \/ \E t \in DOMAIN tracedFlows : unblockerLock(t)
  \/ \E t \in DOMAIN tracedFlows : unblockerAdd(t)
  \/ \E flowID \in FlowIds : reaperTick(flowID)

CallbackSpec == Init /\ [][CallbackNext]_vars

\* the workers of the pool on one connection with one traced request: every
\* handle is unlocked, a worker at mu.Lock() gets the mutex if it is free
\* again and again, and a callback that has the mutex returns; no timer is
\* bound to fire
Gate ==
  [ workers |-> Workers, carriers |-> 1, tracedFlows |-> 1,
    flags |-> {tcpPsh + tcpAck, tcpFin + tcpAck},
    seqs |-> {1}, locals |-> {FALSE}, traces |-> {1}, http2 |-> {FALSE} ]

GateNext ==
  \/ WorkerNext(Gate)
  \/ \E t \in DOMAIN tracedFlows : unblockerFire(t)
  \/ \E t \in DOMAIN tracedFlows : unblockerCompareAndSwap(t)
  \/ \E t \in DOMAIN tracedFlows : unblockerLock(t)
  \/ \E t \in DOMAIN tracedFlows : unblockerAdd(t)

GateFairness ==
  /\ \A w \in Gate.workers :
        /\ SF_vars(lockAcquire(w))
        /\ WF_vars(Unlocks(Gate, w))
  /\ \A t \in 1 .. Gate.tracedFlows :
        WF_vars(t \in DOMAIN tracedFlows /\ unblockerAdd(t))

GateSpec == Init /\ [][GateNext]_vars /\ GateFairness

\* a reaper tick on a carrier that has no release timer pending: a carrier
\* is old enough carrierDeadline (600 s) after its last unlock, and a timer
\* armed at an unlock runs trackingDeadline (10 s) after it
reaperTickIdle(flowID) ==
  /\ MutexMap[flowID] # Nil
  /\ untrackTimers[MutexMap[flowID]] \in {"none", "done"}
  /\ reaperTick(flowID)

\* one worker on a flow whose carrier is evicted by the reaper after an idle
\* period and re-created by the next segment, one traced request
StaleHandle ==
  [ workers |-> {1}, carriers |-> MaxCarriers, tracedFlows |-> 1,
    flags |-> {tcpPsh + tcpAck, tcpFin + tcpAck},
    seqs |-> {1}, locals |-> {FALSE}, traces |-> {1}, http2 |-> {FALSE} ]

StaleHandleNext ==
  \/ WorkerNext(StaleHandle)
  \/ UnblockerNext
  \/ UntrackNext
  \/ \E flowID \in FlowIds : reaperTickIdle(flowID)

StaleHandleSpec == Init /\ [][StaleHandleNext]_vars

\* ---------------------------------------------------------------- lookup
\* The lookup as a function of the index: a worker holds a handle on a flow
\* whose index is any stream map with at most one stream, stream 1, whose
\* inner map is any injection of up to MaxInnerKeys sequence numbers into
\* traced flows (none while untrackConnection has emptied the inner map and
\* not yet deleted the stream); stream 2 is never tracked.
LookupSeqs == 0 .. MaxKey

LookupStreams == {1, 2}

Injections(keys) ==
  { f \in [keys -> 1 .. Cardinality(keys)] :
      \A a, b \in keys : a # b => f[a] # f[b] }

LookupInit ==
  \E keys \in SUBSET LookupSeqs, ref \in LookupSeqs :
     \E f \in Injections(keys), present, streamPresent \in BOOLEAN :
        LET n == Cardinality(keys)
        IN  /\ n <= MaxInnerKeys
            /\ streamPresent \/ keys = {}
            /\ present \/ ~streamPresent
            /\ ctxDone = FALSE
            /\ reaperAlive = TRUE
            /\ MutexMap = [flowID \in FlowIds |-> 1]
            /\ carriers =
                 << [newFlowLockCarrier(1) EXCEPT
                       !.mu = 1, !.activeRequests = n, !.wg = n] >>
            /\ tracedFlows =
                 [t \in 1 .. n |->
                    newTracedFlow(1, 1, traceAndSpan(1 + (t % 2), 1))]
            /\ flowToStreamToSequenceMap =
                 [flowID \in FlowIds |-> IF present THEN 1 ELSE Nil]
            /\ stsms = IF ~present THEN <<>>
                       ELSE IF ~streamPresent THEN << EmptyMap >>
                       ELSE << Put(EmptyMap, 1, f) >>
            /\ untrackTimers = << "none" >>
            /\ workers =
                 [w \in Workers |->
                    IF w = 1
                    THEN [ pc |-> "held", carrier |-> 1, flowID |-> 1,
                           tcpFlags |-> tcpPsh + tcpAck, ref |-> ref,
                           stsm |-> IF present THEN 1 ELSE Nil,
                           activeRequests |-> 0 ]
                    ELSE IdleWorker]
            /\ lookup = NoLookup
            /\ releaseWins = << 0 >>
            /\ traceToHttpRequestMap = {}
            /\ untracks = << 0 >>

LookupNext ==
  \E w \in Workers, streamID \in LookupStreams :
     TraceAndSpanProvider(w, streamID)

LookupSpec == LookupInit /\ [][LookupNext]_vars

\* ---------------------------------------------------------------- claims
\* the workers that are between the return of lock and their unlock
Holders(flowID) ==
  { w \in Workers : workers[w].pc = "held" /\ workers[w].flowID = flowID }

\* C1: at any moment at most one caller is between the return of lock(F) and
\* its matching unlock, also after the carrier of F was removed and re-created
C1_MutualExclusion ==
  \A flowID \in FlowIds : Cardinality(Holders(flowID)) <= 1

\* wait-group tokens taken by tracked requests of the flow and not yet given
\* back by a response, an unblocker or untrack
Tokens(flowID) ==
  { c \in DOMAIN carriers : carriers[c].flowID = flowID /\ carriers[c].wg > 0 }

\* lock(F) of worker w leaves the termination gate in this step
GatePassed(w) ==
  workers[w].pc = "wait" /\ workers'[w].pc = "acquire"

\* C2: a lock(F) with FIN or RST, the context not cancelled, does not get past
\* the gate while a request tracked on F before it still holds its token
C2_TerminationGating ==
  [][\A w \in Workers : GatePassed(w) => Tokens(workers[w].flowID) = {}]_vars

\* C3: with the context never cancelled, every handle unlocked and every timer
\* fired, a lock(F) with FIN or RST that is waiting at the gate returns
C3_TerminationProgress ==
  \A w \in Workers : (workers[w].pc = "wait") ~> (workers[w].pc = "held")

\* the release winners of a flow id, over all the carriers it has had
FlowWins(flowID) ==
  { c \in DOMAIN carriers : carriers[c].flowID = flowID /\ releaseWins[c] > 0 }

\* C4 as claimed: over all the termination unlocks on one flow id never more
\* than one has returned released_winner = true
C4_SingleShotRelease ==
  \A flowID \in FlowIds :
     /\ Cardinality(FlowWins(flowID)) <= 1
     /\ \A c \in FlowWins(flowID) : releaseWins[c] = 1

\* C4 amended: on every carrier at most one termination unlock has returned
\* released_winner = true, and one has exactly when the carrier is released
C4_SingleShotReleasePerCarrier ==
  \A c \in DOMAIN carriers :
     /\ releaseWins[c] <= 1
     /\ carriers[c].released <=> releaseWins[c] = 1

\* two carriers of one flow id, each with its release winner
C4_Witness ==
  \E c1, c2 \in DOMAIN carriers :
     /\ c1 # c2
     /\ carriers[c1].flowID = carriers[c2].flowID
     /\ releaseWins[c1] = 1 /\ carriers[c1].released
     /\ releaseWins[c2] = 1 /\ carriers[c2].released

\* C5: no step changes active_requests of a carrier without changing its
\* wait-group counter by the same amount
C5_CounterCoupling ==
  [][\A c \in DOMAIN carriers :
        carriers'[c].activeRequests - carriers[c].activeRequests
          = carriers'[c].wg - carriers[c].wg]_vars

\* a worker holds a handle whose UnlockWithTraceAndSpan tracks
TracingHandle(w) ==
  workers[w].pc = "held" /\ ~isSynFinRst(workers[w].tcpFlags)

\* the heap after the handle wk is unlocked with one request / one response
\* of trace t on stream s, on a PSH|ACK segment
UnlockedWithRequest(h, wk, s, t) ==
  UnlockWithTraceAndSpanTracking(h, wk, tcpPsh + tcpAck, FALSE, <<s>>, <<>>,
                                 Put(EmptyMap, s, t), EmptyMap)

UnlockedWithResponse(h, wk, s, t) ==
  UnlockWithTraceAndSpanTracking(h, wk, tcpPsh + tcpAck, FALSE, <<>>, <<s>>,
                                 EmptyMap, Put(EmptyMap, s, t))

\* the handle of the next lock on the same carrier: the lookup is bound to the
\* index as the unlock before it left it
Relocked(h, wk, ref) ==
  [wk EXCEPT !.ref = ref, !.stsm = h.ftstsm[wk.flowID]]

\* worker w holds the response-bearing segment that follows the one request of
\* its carrier, tracked as t, before the unblocker of t has fired
AfterRequest(w, t) ==
  LET wk == workers[w]
      found == tracedFlowProvider(Heap, wk.stsm, wk.ref,
                                  tracedFlows[t].ts.streamID)
  IN  /\ TracingHandle(w)
      /\ carriers[wk.carrier].activeRequests = 1
      /\ carriers[wk.carrier].wg = 1
      /\ tracedFlows[t].lock = wk.carrier
      /\ tracedFlows[t].isActive
      /\ tracedFlows[t].unblocker = "armed"
      /\ found.ok /\ found.tf = t

Paired(h, wk, t) ==
  /\ h.activeRequests = 0
  /\ h.carriers[wk.carrier].activeRequests = 0
  /\ h.carriers[wk.carrier].wg = 0
  /\ ~h.tracedFlows[t].isActive
  /\ h.tracedFlows[t].unblocker = "stopped"

\* C6: the response with the trace of the one tracked request returns
\* active_requests = 0, leaves the wait-group at 0 and the traced flow
\* inactive with its unblocker stopped; a stopped unblocker stays stopped
C6_RequestResponsePairing ==
  /\ [](\A w \in Workers, t \in DOMAIN tracedFlows :
          AfterRequest(w, t) =>
            Paired(UnlockedWithResponse(Heap, workers[w],
                                        tracedFlows[t].ts.streamID,
                                        tracedFlows[t].ts.traceID),
                   workers[w], t))
  /\ [][\A t \in DOMAIN tracedFlows :
          tracedFlows[t].unblocker = "stopped"
            => tracedFlows'[t].unblocker = "stopped"]_vars

\* the exchange is over: the carrier and the index are still in place, the
\* traced flow was won by its response
C6_Witness ==
  \E t \in DOMAIN tracedFlows :
     LET c == tracedFlows[t].lock
         stsm == flowToStreamToSequenceMap[tracedFlows[t].flowID]
     IN  /\ ~tracedFlows[t].isActive
         /\ tracedFlows[t].unblocker = "stopped"
         /\ carriers[c].activeRequests = 0
         /\ carriers[c].wg = 0
         /\ carriers[c].mu = Nil
         /\ carriers[c].lastUnlockedAt
         /\ MutexMap[carriers[c].flowID] = c
         /\ untrackTimers[c] = "none"
         /\ stsm # Nil
         /\ \E s \in DOMAIN stsms[stsm] :
               \E k \in DOMAIN stsms[stsm][s] : stsms[stsm][s][k] = t

\* worker w holds the second request-bearing segment of a connection whose
\* first exchange, tracked as t1 at a lower sequence key, is over
AfterExchange(w, t1) ==
  LET wk == workers[w]
      stsm == flowToStreamToSequenceMap[wk.flowID]
      s == tracedFlows[t1].ts.streamID
  IN  /\ TracingHandle(w)
      /\ carriers[wk.carrier].activeRequests = 0
      /\ carriers[wk.carrier].wg = 0
      /\ MutexMap[wk.flowID] = wk.carrier
      /\ tracedFlows[t1].lock = wk.carrier
      /\ ~tracedFlows[t1].isActive
      /\ tracedFlows[t1].unblocker = "stopped"
      /\ stsm # Nil /\ wk.stsm = stsm
      /\ s \in DOMAIN stsms[stsm]
      /\ \A k \in DOMAIN stsms[stsm][s] :
            stsms[stsm][s][k] = t1 /\ k < wk.ref

\* C7: request T2 and then response T2 at higher sequence numbers on the
\* stream of a finished exchange T1 leave active_requests = 0 and the
\* wait-group at 0
C7_PairingOverReusedConnection ==
  \A w \in Workers, t1 \in DOMAIN tracedFlows :
     \A t2 \in Traces \ {tracedFlows[t1].ts.traceID} :
        AfterExchange(w, t1) =>
          LET wk == workers[w]
              s == tracedFlows[t1].ts.streamID
              h1 == UnlockedWithRequest(Heap, wk, s, t2)
              h2 == UnlockedWithResponse(h1, Relocked(h1, wk, wk.ref + 1),
                                         s, t2)
          IN  /\ h2.activeRequests = 0
              /\ h2.carriers[wk.carrier].activeRequests = 0
              /\ h2.carriers[wk.carrier].wg = 0

\* C8: an unblocker that won its traced flow subtracts 1 from active_requests
\* and gives its token back, unless the wait-group holds no token any more
C8_UnblockerFiring ==
  [][\A t \in DOMAIN tracedFlows :
        (tracedFlows[t].unblocker = "locking"
           /\ tracedFlows'[t].unblocker = "done")
        => LET c == tracedFlows[t].lock
           IN  /\ carriers'[c].activeRequests = carriers[c].activeRequests - 1
               /\ carriers[c].wg > 0 => carriers'[c].wg = carriers[c].wg - 1]_vars

\* worker w holds the first traced segment of a flow: nothing is tracked yet
FreshHandle(w) ==
  LET wk == workers[w]
  IN  /\ TracingHandle(w)
      /\ tracedFlows = <<>>
      /\ flowToStreamToSequenceMap[wk.flowID] = Nil
      /\ carriers[wk.carrier].activeRequests = 0
      /\ carriers[wk.carrier].wg = 0
      /\ MutexMap[wk.flowID] = wk.carrier

\* C9: on a flow without tracked state the response unlocked first leaves
\* active_requests at -1, and the request unlocked after it leaves it at 0,
\* takes no token and has cancelled its own unblocker
C9_ResponseBeforeRequest ==
  \A w \in Workers, s \in Streams, t \in Traces :
     FreshHandle(w) =>
       LET wk == workers[w]
           h1 == UnlockedWithResponse(Heap, wk, s, t)
           h2 == UnlockedWithRequest(h1, Relocked(h1, wk, wk.ref), s, t)
           tf == Len(h2.tracedFlows)
       IN  /\ h1.activeRequests = 0 - 1
           /\ h2.activeRequests = 0
           /\ h2.carriers[wk.carrier].wg = 0
           /\ ~h2.tracedFlows[tf].isActive
           /\ h2.tracedFlows[tf].unblocker = "stopped"

\* C10: once the context is cancelled a lock that waits at the gate can go on
\* to the mutex, whatever tokens are outstanding
C10_CancellationDuringWait ==
  \A w \in Workers :
     (ctxDone /\ workers[w].pc = "wait") => ENABLED lockWait(w)

\* the inner map the last TraceAndSpanProvider call ranged over, EmptyMap
\* when the handle has no stream map or the stream map has no such stream
LookedUp ==
  LET stsm == IF lookup.worker = Nil THEN Nil
              ELSE workers[lookup.worker].stsm
  IN  IF stsm = Nil THEN EmptyMap
      ELSE IF lookup.stream \notin DOMAIN stsms[stsm] THEN EmptyMap
      ELSE stsms[stsm][lookup.stream]

LookedUpRef == workers[lookup.worker].ref

Greatest(keys) == CHOOSE k \in keys : \A o \in keys : o <= k

\* C11: over a non-empty inner map with no key strictly below the reference
\* the lookup returns the entry with the greatest key
C11_WrapAroundRangeLookup ==
  (/\ DOMAIN LookedUp # {}
   /\ \A k \in DOMAIN LookedUp : ~(k < LookedUpRef))
  => /\ lookup.ok
     /\ lookup.tf = LookedUp[Greatest(DOMAIN LookedUp)]

\* the lookup wrapped around: it returned the entry of the greatest key and
\* not the one of the least
C11_Witness ==
  /\ Cardinality(DOMAIN LookedUp) >= 2
  /\ \A k \in DOMAIN LookedUp : LookedUpRef < k
  /\ lookup.ok
  /\ lookup.tf = LookedUp[Greatest(DOMAIN LookedUp)]

\* C12: over an inner map with a key strictly below the reference the lookup
\* returns the entry with the greatest such key
C12_MonotoneRangeLookup ==
  LET below == { k \in DOMAIN LookedUp : k < LookedUpRef }
  IN  below # {} => /\ lookup.ok
                    /\ lookup.tf = LookedUp[Greatest(below)]

\* three keys, the reference between the second and the third: the lookup
\* returned the entry of the second
C12_Witness ==
  LET below == { k \in DOMAIN LookedUp : k < LookedUpRef }
  IN  /\ Cardinality(DOMAIN LookedUp) = 3
      /\ Cardinality(below) = 2
      /\ LookedUpRef \notin DOMAIN LookedUp
      /\ lookup.ok
      /\ lookup.tf = LookedUp[Greatest(below)]

\* the index of flowID has no inner map for the stream
Absent(flowID, stream) ==
  \/ flowToStreamToSequenceMap[flowID] = Nil
  \/ stream \notin DOMAIN stsms[flowToStreamToSequenceMap[flowID]]

\* C13: the lookup of a handle reports not found, and no trace context, for
\* a stream whose flow has no sub-tree or which has no inner map under it
C13_LookupOnAbsentKeys ==
  /\ \A w \in Workers, stream \in LookupStreams :
        (workers[w].pc = "held" /\ Absent(workers[w].flowID, stream))
        => tracedFlowProvider(Heap, workers[w].stsm, workers[w].ref, stream)
             = [tf |-> Nil, ok |-> FALSE]
  /\ (lookup.worker # Nil
        /\ workers[lookup.worker].pc = "held"
        /\ Absent(workers[lookup.worker].flowID, lookup.stream))
     => ~lookup.ok /\ lookup.ts = Nil /\ lookup.tf = Nil

\* the lookup was called for a stream that is not tracked, on a flow that has
\* a sub-tree with another stream
C13_Witness ==
  /\ lookup.worker # Nil
  /\ workers[lookup.worker].pc = "held"
  /\ flowToStreamToSequenceMap[workers[lookup.worker].flowID] # Nil
  /\ DOMAIN stsms[flowToStreamToSequenceMap[workers[lookup.worker].flowID]]
       # {}
  /\ Absent(workers[lookup.worker].flowID, lookup.stream)
  /\ ~lookup.ok /\ lookup.ts = Nil

\* the heap after the FIN|ACK lock that follows h is unlocked with
\* unlock_and_release: the caller won, its timer is armed and nothing of the
\* flow was removed
ReleasedAndDeferred(h, wk) ==
  LET c == wk.carrier
      h2 == UnlockAndReleaseFN(h, wk.flowID, c)
  IN  /\ h2.released
      /\ h2.carriers[c].released
      /\ h2.carriers[c].mu = Nil
      /\ h2.untrackTimers[c] = "armed"
      /\ h2.MutexMap[wk.flowID] = c
      /\ h2.ftstsm[wk.flowID] # Nil
      /\ h2.ftstsm = h.ftstsm
      /\ h2.stsms = h.stsms

\* no untrackConnection of an earlier carrier of the flow is still running
NoOtherUntrack(c) ==
  \A o \in DOMAIN carriers :
     (o # c /\ carriers[o].flowID = carriers[c].flowID)
     => untrackTimers[o] \in {"none", "done"}

\* C14: after one request and its matching response on a fresh carrier (no
\* release before, no untrack of an earlier carrier still running), with the
\* context live, the FIN|ACK lock finds the wait-group at zero and its
\* unlock_and_release wins, arms the untrack timer and removes nothing; while
\* that timer has not fired only the reaper removes the carrier or the
\* sub-tree of the flow
C14_ReleaseAfterBalancedExchange ==
  /\ [](\A w \in Workers, t \in DOMAIN tracedFlows :
          (/\ AfterRequest(w, t)
           /\ ~ctxDone
           /\ ~carriers[workers[w].carrier].released
           /\ untrackTimers[workers[w].carrier] = "none"
           /\ NoOtherUntrack(workers[w].carrier)
           /\ MutexMap[workers[w].flowID] = workers[w].carrier)
          => LET h == UnlockedWithResponse(Heap, workers[w],
                                           tracedFlows[t].ts.streamID,
                                           tracedFlows[t].ts.traceID)
             IN  /\ h.carriers[workers[w].carrier].wg = 0
                 /\ ReleasedAndDeferred(h, workers[w]))
  /\ [][\A c \in DOMAIN carriers :
          (/\ untrackTimers[c] = "armed"
           /\ untrackTimers'[c] = "armed"
           /\ MutexMap[carriers[c].flowID] = c
           /\ NoOtherUntrack(c)
           /\ ~reaperTick(carriers[c].flowID))
          => /\ MutexMap'[carriers[c].flowID] = c
             /\ flowToStreamToSequenceMap[carriers[c].flowID] # Nil
                  => flowToStreamToSequenceMap'[carriers[c].flowID]
                       = flowToStreamToSequenceMap[carriers[c].flowID]]_vars

\* the release after the exchange happened: the carrier is released once, its
\* timer is armed, and the carrier and the traced flow are still in place
C14_Witness ==
  \E t \in DOMAIN tracedFlows :
     LET c == tracedFlows[t].lock
         stsm == flowToStreamToSequenceMap[tracedFlows[t].flowID]
     IN  /\ ~ctxDone
         /\ ~tracedFlows[t].isActive
         /\ tracedFlows[t].unblocker = "stopped"
         /\ carriers[c].activeRequests = 0
         /\ carriers[c].wg = 0
         /\ carriers[c].mu = Nil
         /\ carriers[c].released
         /\ releaseWins[c] = 1
         /\ untrackTimers[c] = "armed"
         /\ MutexMap[carriers[c].flowID] = c
         /\ stsm # Nil
         /\ \E s \in DOMAIN stsms[stsm] :
               \E k \in DOMAIN stsms[stsm][s] : stsms[stsm][s][k] = t

C18_ReaperTermination ==
  /\ ctxDone ~> ~reaperAlive
  /\ [][~reaperAlive => ~reaperAlive']_vars
  /\ [][\A flowID \in FlowIds :
          (~reaperAlive /\ MutexMap[flowID] # Nil /\ MutexMap'[flowID] = Nil)
          => \E c \in DOMAIN carriers :
                /\ carriers[c].flowID = flowID
                /\ \/ untrackTimers'[c] # untrackTimers[c]
                   \/ carriers'[c].released # carriers[c].released]_vars

\* the reaper has returned and left behind a carrier it would have evicted
C18_Witness ==
  /\ ctxDone
  /\ ~reaperAlive
  /\ \E flowID \in FlowIds :
        /\ MutexMap[flowID] # Nil
        /\ carriers[MutexMap[flowID]].lastUnlockedAt
        /\ carriers[MutexMap[flowID]].mu = Nil
        /\ ~carriers[MutexMap[flowID]].released

\* C16: the reaper's eviction of a tracked, unlocked flow leaves the flow id
\* out of the carrier map and of the outer index, and the trace id of every
\* traced flow tracked under the evicted carrier out of the trace registry
C16_IdleFlowEviction ==
  [][\A flowID \in FlowIds :
       (reaperTick(flowID) /\ flowToStreamToSequenceMap[flowID] # Nil)
       => /\ MutexMap'[flowID] = Nil
          /\ flowToStreamToSequenceMap'[flowID] = Nil
          /\ \A t \in DOMAIN tracedFlows :
                (tracedFlows[t].flowID = flowID
                   /\ tracedFlows[t].lock = MutexMap[flowID])
                => tracedFlows[t].ts.traceID \notin traceToHttpRequestMap']_vars

\* the step in which an untrackConnection called for carrier c returns
\* normally: the timer's, the reaper's, or the release winner's own call
UntrackCompleted(c) ==
  \/ untrackTimers[c] = "drain" /\ untrackTimers'[c] = "done"
  \/ MutexMap[carriers[c].flowID] = c /\ reaperTick(carriers[c].flowID)
  \/ ctxDone /\ ~carriers[c].released /\ carriers'[c].released

\* C17: when untrackConnection has completed for a flow the carrier map holds
\* no carrier for it, and as long as it holds none (no new lock) a reaper
\* cycle changes nothing
C17_ReaperIdempotence ==
  /\ [][\A c \in DOMAIN carriers :
          UntrackCompleted(c) => MutexMap'[carriers[c].flowID] = Nil]_vars
  /\ [](\A flowID \in FlowIds :
          MutexMap[flowID] = Nil
          => /\ reaperForEach(Heap, flowID) = Heap
             /\ reaperForEach(reaperForEach(Heap, flowID), flowID) = Heap)

\* the timer's untrackConnection has completed, the reaper is still running
\* and the flow has no carrier
C17_Witness ==
  \E c \in DOMAIN carriers :
     /\ untrackTimers[c] = "done"
     /\ untracks[c] = 1
     /\ carriers[c].mu = Nil
     /\ carriers[c].wg = 0
     /\ MutexMap[carriers[c].flowID] = Nil
     /\ flowToStreamToSequenceMap[carriers[c].flowID] = Nil
     /\ reaperAlive

\* the traced flows of carrier c whose isActive nobody has won yet
ActiveFlows(c) ==
  { t \in DOMAIN tracedFlows :
      tracedFlows[t].lock = c /\ tracedFlows[t].isActive }

\* C19: isActive never goes back to true, and the wait-group token of a
\* traced flow is given back only by the party that won its isActive: while
\* nobody has, the token is outstanding, so the wait-group of a carrier
\* counts at least its active traced flows
C19_SingleWinnerPerTracedFlow ==
  /\ [][\A t \in DOMAIN tracedFlows :
          ~tracedFlows[t].isActive => ~tracedFlows'[t].isActive]_vars
  /\ [](\A c \in DOMAIN carriers :
          carriers[c].wg >= Cardinality(ActiveFlows(c)))

\* C20: the released flag of a carrier, once true, stays true, and
\* untrackConnection is called at most once for a carrier, whoever calls it
C20_UntrackOncePerCarrier ==
  /\ [][\A c \in DOMAIN carriers :
          carriers[c].released => carriers'[c].released]_vars
  /\ [](\A c \in DOMAIN carriers : untracks[c] <= 1)

\* the index sub-tree keyed by flowID is the same object with the same
\* streams, keys and traced flows after the step
SubTreeUnchanged(flowID) ==
  IF flowToStreamToSequenceMap[flowID] = Nil
  THEN flowToStreamToSequenceMap'[flowID] = Nil
  ELSE /\ flowToStreamToSequenceMap'[flowID] = flowToStreamToSequenceMap[flowID]
       /\ stsms'[flowToStreamToSequenceMap[flowID]]
            = stsms[flowToStreamToSequenceMap[flowID]]

\* C21: while a worker holds the handle of a flow, a step of any other party
\* (another worker, a timer, the reaper) leaves the index sub-tree of the flow
\* and the fields of the carrier as they are
C21_ExclusiveAccessUnderMutex ==
  [][\A w \in Workers :
       (workers[w].pc = "held" /\ workers'[w] = workers[w])
       => /\ SubTreeUnchanged(workers[w].flowID)
          /\ carriers'[workers[w].carrier] = carriers[workers[w].carrier]]_vars

\* C22: in the step in which an untrackConnection called for a carrier
\* returns, the wait-group counter of the carrier is 0
C22_UntrackDrainsTheGate ==
  [][\A c \in DOMAIN carriers :
       UntrackCompleted(c) => carriers'[c].wg = 0]_vars

\* the UnlockWithTraceAndSpan that lock installs in the handle of wk
UnlockWithTraceAndSpanFN(h, wk, tcpFlags, isHTTP2, requestStreams, responseStreams, requestTS, responseTS) ==
  IF isSynFinRst(wk.tcpFlags)
  THEN UnlockWithTraceAndSpanFallback(h, wk, tcpFlags)
  ELSE UnlockWithTraceAndSpanTracking(h, wk, tcpFlags, isHTTP2,
                                      requestStreams, responseStreams,
                                      requestTS, responseTS)

\* what a call of UnlockWithTraceAndSpan that ended in heap h left alone on
\* carrier c of flow flowID: no traced flow was created (so no unblocker
\* armed), activeRequests, the wait-group counter and isHTTP2 are as before,
\* and so is the index unless the call itself ran untrackConnection
NoTracking(h, flowID, c) ==
  /\ Len(h.tracedFlows) = Len(tracedFlows)
  /\ \A t \in DOMAIN tracedFlows :
        h.untracks = untracks => h.tracedFlows[t] = tracedFlows[t]
  /\ h.carriers[c].activeRequests = carriers[c].activeRequests
  /\ h.carriers[c].wg = carriers[c].wg
  /\ h.carriers[c].isHTTP2 = carriers[c].isHTTP2
  /\ h.untracks = untracks
       => /\ h.ftstsm = flowToStreamToSequenceMap
          /\ h.stsms = stsms

\* C23: on a handle whose lock flags contain SYN, FIN or RST,
\* UnlockWithTraceAndSpan, whatever flags, streams and trace maps it is given,
\* does what UnlockWithTCPFlagsFN does with those flags and nothing else: no
\* traced flow is created, activeRequests, the wait-group counter and isHTTP2
\* keep their values, the index changes only through the untrackConnection of
\* a release after cancellation, and the value returned is the activeRequests
\* loaded when the lock was taken
C23_NoTrackingFromSynFinRst ==
  \A w \in Workers :
     (workers[w].pc = "held" /\ isSynFinRst(workers[w].tcpFlags))
     => \A tcpFlags \in SegmentFlags, isHTTP2 \in BOOLEAN,
           requestStreams \in StreamLists, responseStreams \in StreamLists :
           \A requestTS \in TSMaps(Traces, requestStreams),
              responseTS \in TSMaps(Traces, responseStreams) :
              LET wk == workers[w]
                  h == UnlockWithTraceAndSpanFN(Heap, wk, tcpFlags, isHTTP2,
                          requestStreams, responseStreams,
                          requestTS, responseTS)
                  u == UnlockWithTCPFlagsFN(Heap, wk.flowID, wk.carrier,
                                            tcpFlags)
              IN  /\ NoTracking(h, wk.flowID, wk.carrier)
                  /\ h.activeRequests = wk.activeRequests
                  /\ [h EXCEPT !.activeRequests = 0, !.released = FALSE]
                       = [u EXCEPT !.activeRequests = 0, !.released = FALSE]
                  /\ h.carriers[wk.carrier].mu = Nil

\* a FIN|ACK handle is held on a flow that has a traced flow in its index and
\* room for another one, and its UnlockWithTraceAndSpan, given a request and a
\* response with trace contexts on the stream of that traced flow, unlocks
\* and tracks nothing
C23_Witness ==
  \E w \in Workers, t \in DOMAIN tracedFlows :
     LET wk == workers[w]
         s == tracedFlows[t].ts.streamID
         h == UnlockWithTraceAndSpanFN(Heap, wk, tcpPsh + tcpAck, TRUE,
                 <<s>>, <<s>>, [x \in {s} |-> 2], [x \in {s} |-> 1])
     IN  /\ wk.pc = "held"
         /\ isSynFinRst(wk.tcpFlags)
         /\ tracedFlows[t].lock = wk.carrier
         /\ flowToStreamToSequenceMap[wk.flowID] # Nil
         /\ Len(tracedFlows) < MaxTracedFlows
         /\ h.carriers[wk.carrier].mu = Nil
         /\ h.carriers[wk.carrier].lastUnlockedAt
         /\ Len(h.tracedFlows) = Len(tracedFlows)
         /\ ~h.carriers[wk.carrier].isHTTP2

\* C24: the handle's Unlock does what UnlockWithTCPFlagsFN does with the flags
\* given to lock; UnlockWithTCPFlagsFN with FIN or RST does what
\* UnlockAndReleaseFN does; and every step in which a worker leaves its handle
\* through Unlock, UnlockWithTCPFlags, UnlockAndRelease or
\* UnlockWithTraceAndSpan leaves the carrier's mutex free and lastUnlockedAt
\* set, whether or not the caller won the release
C24_EveryUnlockReleasesTheMutex ==
  /\ [](\A w \in Workers :
          workers[w].pc = "held"
          => LET wk == workers[w]
             IN  /\ UnlockFn(Heap, wk)
                      = UnlockWithTCPFlagsFN(Heap, wk.flowID, wk.carrier,
                                             wk.tcpFlags)
                 /\ \A tcpFlags \in SegmentFlags :
                       isConnectionTermination(tcpFlags)
                       => UnlockWithTCPFlagsFN(Heap, wk.flowID, wk.carrier,
                                               tcpFlags)
                            = UnlockAndReleaseFN(Heap, wk.flowID, wk.carrier))
  /\ [][\A w \in Workers :
          (workers[w].pc = "held" /\ workers'[w].pc # "held")
          => /\ carriers'[workers[w].carrier].mu = Nil
             /\ carriers'[workers[w].carrier].lastUnlockedAt]_vars

RECURSIVE ResponsesAhead(_, _, _, _, _)
\* the heap after k segments of the flow, each locked and unlocked with one
\* response of trace t on stream s; the first one is the handle wk
ResponsesAhead(h, wk, s, t, k) ==
  IF k = 0
  THEN h
  ELSE LET h1 == ResponsesAhead(h, wk, s, t, k - 1)
       IN  UnlockedWithResponse(h1,
              IF k = 1 THEN wk ELSE Relocked(h1, wk, wk.ref), s, t)

RECURSIVE RequestsBehind(_, _, _, _, _)
\* the heap after k further segments, each locked and unlocked with one
\* request of trace t on stream s
RequestsBehind(h, wk, s, t, k) ==
  IF k = 0
  THEN h
  ELSE LET h1 == RequestsBehind(h, wk, s, t, k - 1)
       IN  UnlockedWithRequest(h1, Relocked(h1, wk, wk.ref), s, t)

\* worker w holds a tracking handle on a carrier with activeRequests = 0 and
\* an empty wait-group, and its lookup finds stream s in the index of the flow
Balanced(w, s) ==
  LET wk == workers[w]
  IN  /\ TracingHandle(w)
      /\ carriers[wk.carrier].activeRequests = 0
      /\ carriers[wk.carrier].wg = 0
      /\ tracedFlowProvider(Heap, wk.stsm, wk.ref, s).ok

\* C25: from activeRequests = 0 and an empty wait-group on a flow whose index
\* has stream s, k responses on s unlocked before k requests on s take
\* activeRequests to -1, ..., -k without a panic and without touching the
\* wait-group, and the k requests bring it back to 0 one by one, take no
\* token, and each leaves its traced flow inactive with its unblocker stopped
C25_OverDecrementReconverges ==
  \A w \in Workers, s \in Streams, t1 \in Traces, t2 \in Traces :
     Balanced(w, s) =>
       \A k \in 1 .. MaxAhead :
          LET wk == workers[w]
              c == wk.carrier
              h1 == ResponsesAhead(Heap, wk, s, t1, k)
          IN  /\ \A i \in 1 .. k :
                    LET hi == ResponsesAhead(Heap, wk, s, t1, i)
                    IN  /\ ~hi.panicked
                        /\ hi.activeRequests = 0 - i
                        /\ hi.carriers[c].activeRequests = 0 - i
                        /\ hi.carriers[c].wg = 0
                        /\ hi.carriers[c].mu = Nil
              /\ \A j \in 1 .. k :
                    LET hj == RequestsBehind(h1, wk, s, t2, j)
                        tf == Len(tracedFlows) + j
                    IN  /\ ~hj.panicked
                        /\ hj.activeRequests = j - k
                        /\ hj.carriers[c].activeRequests = j - k
                        /\ hj.carriers[c].wg = 0
                        /\ Len(hj.tracedFlows) = tf
                        /\ ~hj.tracedFlows[tf].isActive
                        /\ hj.tracedFlows[tf].unblocker = "stopped"

\* a response was unlocked ahead of its request: activeRequests is -1 with an
\* empty wait-group, and the request now held brings it back to 0 and stops
\* its own unblocker
C25_Witness ==
  \E w \in Workers, s \in Streams :
     LET wk == workers[w]
         c == wk.carrier
         h == UnlockedWithRequest(Heap, wk, s, 1)
     IN  /\ TracingHandle(w)
         /\ carriers[c].activeRequests = 0 - 1
         /\ carriers[c].wg = 0
         /\ tracedFlowProvider(Heap, wk.stsm, wk.ref, s).ok
         /\ Len(tracedFlows) < MaxTracedFlows
         /\ h.carriers[c].activeRequests = 0
         /\ h.carriers[c].wg = 0
         /\ h.tracedFlows[Len(h.tracedFlows)].unblocker = "stopped"

\* C26: UnlockAndReleaseFN called with activeRequests # 0 reports no win,
\* leaves released as it was and neither arms the untrack timer nor runs
\* untrackConnection; when it reports a win activeRequests was 0 and released
\* was false, released is set and untrackConnection is scheduled or, after
\* cancellation, has run; and every step that arms an untrack timer leaves
\* the carrier with activeRequests = 0 and released set by that step
C26_ReleaseNeedsZeroCounter ==
  /\ [](\A w \in Workers :
          workers[w].pc = "held"
          => LET wk == workers[w]
                 c == wk.carrier
                 h == UnlockAndReleaseFN(Heap, wk.flowID, c)
             IN  /\ h.carriers[c].mu = Nil
                 /\ carriers[c].activeRequests # 0
                      => /\ ~h.released
                         /\ h.carriers[c].released = carriers[c].released
                         /\ h.untrackTimers = untrackTimers
                         /\ h.untracks = untracks
                         /\ h.releaseWins = releaseWins
                 /\ h.released
                      => /\ carriers[c].activeRequests = 0
                         /\ ~carriers[c].released
                         /\ h.carriers[c].released
                         /\ IF ctxDone
                            THEN h.untracks[c] = Min(untracks[c] + 1, 2)
                            ELSE h.untrackTimers[c] = "armed")
  /\ [][\A c \in DOMAIN carriers :
          (untrackTimers[c] # "armed" /\ untrackTimers'[c] = "armed")
          => /\ carriers'[c].activeRequests = 0
             /\ ~carriers[c].released
             /\ carriers'[c].released]_vars

\* a handle is held on a carrier that was never released and has one request
\* in flight: its UnlockAndRelease unlocks, reports no win and schedules
\* nothing
C26_Witness ==
  \E w \in Workers :
     LET wk == workers[w]
         c == wk.carrier
         h == UnlockAndReleaseFN(Heap, wk.flowID, c)
     IN  /\ wk.pc = "held"
         /\ carriers[c].activeRequests = 1
         /\ ~carriers[c].released
         /\ untrackTimers[c] = "none"
         /\ ~h.released
         /\ ~h.carriers[c].released
         /\ h.untrackTimers[c] = "none"
         /\ h.carriers[c].mu = Nil

\* C27: UnlockWithTCPFlagsFN with flags that contain neither FIN nor RST
\* reports no win and changes nothing but the mutex and lastUnlockedAt of the
\* carrier: released, activeRequests, the wait-group counter, the index, the
\* traced flows and the trace registry are as before, no untrack timer is
\* armed and no untrackConnection is run
C27_PlainUnlockLeavesTrackingAlone ==
  \A w \in Workers, tcpFlags \in SegmentFlags :
     (workers[w].pc = "held" /\ ~isConnectionTermination(tcpFlags))
     => LET wk == workers[w]
            c == wk.carrier
            h == UnlockWithTCPFlagsFN(Heap, wk.flowID, c, tcpFlags)
        IN  /\ ~h.released
            /\ h.carriers[c].mu = Nil
            /\ h.carriers[c].lastUnlockedAt
            /\ h.carriers[c]
                 = [carriers[c] EXCEPT !.mu = Nil, !.lastUnlockedAt = TRUE]
            /\ \A o \in DOMAIN carriers : o # c => h.carriers[o] = carriers[o]
            /\ h.MutexMap = MutexMap
            /\ h.tracedFlows = tracedFlows
            /\ h.ftstsm = flowToStreamToSequenceMap
            /\ h.stsms = stsms
            /\ h.traceToHttpRequestMap = traceToHttpRequestMap
            /\ h.untrackTimers = untrackTimers
            /\ h.untracks = untracks
            /\ h.releaseWins = releaseWins

\* a handle is held on a carrier whose release would be won (activeRequests =
\* 0, never released) and whose flow has an index: unlocked with PSH|ACK it is
\* not released, its timer is not armed and the index stays
C27_Witness ==
  \E w \in Workers :
     LET wk == workers[w]
         c == wk.carrier
         h == UnlockWithTCPFlagsFN(Heap, wk.flowID, c, tcpPsh + tcpAck)
     IN  /\ wk.pc = "held"
         /\ carriers[c].activeRequests = 0
         /\ ~carriers[c].released
         /\ untrackTimers[c] = "none"
         /\ flowToStreamToSequenceMap[wk.flowID] # Nil
         /\ UnlockAndReleaseFN(Heap, wk.flowID, c).released
         /\ ~h.released
         /\ ~h.carriers[c].released
         /\ h.untrackTimers[c] = "none"
         /\ h.ftstsm[wk.flowID] # Nil
         /\ h.carriers[c].mu = Nil

\* the requestStreams arguments the request loop is applied to: one or two
\* streams of {1, 2}, a stream twice included
RequestLists == {<<1>>, <<2>>, <<1, 2>>, <<2, 1>>, <<1, 1>>}

\* the streams of requestStreams that have a trace context, in their order
TrackedStreams(requestStreams, requestTS) ==
  SelectSeq(requestStreams, LAMBDA s : s \in DOMAIN requestTS)

\* C28: UnlockWithTraceAndSpan on a tracking handle, given requests only:
\* with n the number of entries of requestStreams that have a trace context
\* and a the value of activeRequests before, n traced flows are created in the
\* order of the list, activeRequests ends at a + n, the i-th of them takes a
\* token and stays active with its unblocker armed when a + i > 0, and takes
\* no token and is inactive with its unblocker stopped when a + i <= 0; the
\* traced flows that existed are untouched, and with n = 0 neither
\* activeRequests, the wait-group counter nor the index changes
C28_RequestAccounting ==
  \A w \in Workers, requestStreams \in RequestLists :
     TracingHandle(w) =>
       \A requestTS \in TSMaps(Traces, <<1, 2>>) :
          LET wk == workers[w]
              c == wk.carrier
              a == carriers[c].activeRequests
              tracked == TrackedStreams(requestStreams, requestTS)
              n == Len(tracked)
              h == UnlockWithTraceAndSpanTracking(Heap, wk, tcpPsh + tcpAck,
                      FALSE, requestStreams, <<>>, requestTS, EmptyMap)
          IN  /\ ~h.panicked
              /\ Len(h.tracedFlows) = Len(tracedFlows) + n
              /\ h.activeRequests = a + n
              /\ h.carriers[c].activeRequests = a + n
              /\ h.carriers[c].wg
                   = carriers[c].wg + Cardinality({ i \in 1 .. n : a + i > 0 })
              /\ \A t \in DOMAIN tracedFlows : h.tracedFlows[t] = tracedFlows[t]
              /\ \A i \in 1 .. n :
                    LET tf == h.tracedFlows[Len(tracedFlows) + i]
                    IN  /\ tf.lock = c
                        /\ tf.ts = traceAndSpan(requestTS[tracked[i]],
                                                tracked[i])
                        /\ IF a + i > 0
                           THEN tf.isActive /\ tf.unblocker = "armed"
                           ELSE ~tf.isActive /\ tf.unblocker = "stopped"
              /\ n = 0 => /\ h.ftstsm = flowToStreamToSequenceMap
                          /\ h.stsms = stsms
                          /\ h.tracedFlows = tracedFlows

\* a tracking handle is held on a carrier with activeRequests = -1: unlocked
\* with two requests and one stream without trace context, the first request
\* is absorbed (no token, unblocker stopped) and the second takes a token
C28_Witness ==
  \E w \in Workers :
     LET wk == workers[w]
         c == wk.carrier
         n == Len(tracedFlows)
         h == UnlockWithTraceAndSpanTracking(Heap, wk, tcpPsh + tcpAck, FALSE,
                 <<1, 1>>, <<>>, [s \in {1} |-> 1], EmptyMap)
     IN  /\ TracingHandle(w)
         /\ carriers[c].activeRequests = 0 - 1
         /\ carriers[c].wg = 0
         /\ Len(h.tracedFlows) = n + 2
         /\ h.carriers[c].activeRequests = 1
         /\ h.carriers[c].wg = 1
         /\ h.tracedFlows[n + 1].unblocker = "stopped"
         /\ h.tracedFlows[n + 2].isActive
         /\ h.tracedFlows[n + 2].unblocker = "armed"

\* the response of trace t on stream s, unlocked on the handle wk, meets the
\* four conditions: its lookup finds a traced flow, of trace t, that is active,
\* with an unblocker that can still be stopped
ResponseMatches(wk, s, t) ==
  LET found == tracedFlowProvider(Heap, wk.stsm, wk.ref, s)
  IN  /\ found.ok
      /\ found.tf # Nil
      /\ tracedFlows[found.tf].ts.traceID = t
      /\ tracedFlows[found.tf].isActive
      /\ tracedFlows[found.tf].unblocker = "armed"

\* C29: UnlockWithTraceAndSpan on a tracking handle, given one response with a
\* trace context: when the lookup finds a traced flow of the same trace that
\* is active and whose unblocker is stopped by the call, activeRequests and
\* the wait-group counter both go down by 1; in every other case both keep
\* their values
C29_ResponseAccounting ==
  \A w \in Workers, s \in Streams, t \in Traces :
     TracingHandle(w) =>
       LET wk == workers[w]
           c == wk.carrier
           h == UnlockedWithResponse(Heap, wk, s, t)
       IN  IF ResponseMatches(wk, s, t)
           THEN /\ h.carriers[c].activeRequests
                     = carriers[c].activeRequests - 1
                /\ h.carriers[c].wg = carriers[c].wg - 1
           ELSE /\ h.carriers[c].activeRequests = carriers[c].activeRequests
                /\ h.carriers[c].wg = carriers[c].wg

\* the traced flow tf is in the index of h under (flowID, stream, key)
Indexed(h, flowID, stream, key, tf) ==
  LET stsm == h.ftstsm[flowID]
  IN  /\ stsm # Nil
      /\ stream \in DOMAIN h.stsms[stsm]
      /\ key \in DOMAIN h.stsms[stsm][stream]
      /\ h.stsms[stsm][stream][key] = tf

\* C30: after trackConnection returns a traced flow for a trace context on
\* stream s, called by the holder of a tracking handle, the inner map of the
\* flow and s has that traced flow under the key of the segment (ack when
\* local, seq otherwise), whether the flow, and the stream, were in the index
\* before or not
C30_TrackInsertsIntoTheIndex ==
  \A w \in Workers, s \in Streams, t \in Traces :
     TracingHandle(w) =>
       LET wk == workers[w]
           h == trackConnection(Heap, wk.carrier, wk.flowID, wk.ref,
                                traceAndSpan(t, s))
       IN  Indexed(h, wk.flowID, s, wk.ref, Len(h.tracedFlows))

\* the step is one of the callback of traced flow t after it won the
\* compare-and-swap, and it changes a counter of the carrier
CallbackCounts(t) ==
  LET c == tracedFlows[t].lock
  IN  /\ tracedFlows[t].unblocker \in {"locking", "locked"}
      /\ tracedFlows'[t].unblocker # tracedFlows[t].unblocker
      /\ \/ carriers'[c].activeRequests # carriers[c].activeRequests
         \/ carriers'[c].wg # carriers[c].wg

\* the step is the compare-and-swap of the callback of t, and it is lost
CallbackLoses(t) ==
  /\ tracedFlows[t].unblocker = "fired"
  /\ ~tracedFlows[t].isActive
  /\ tracedFlows'[t].unblocker # "fired"

\* C31 as stated: the callback that won the compare-and-swap changes
\* activeRequests before it has the carrier mutex; a callback that lost
\* changes nothing
C31_UnblockerLockOrder ==
  [][\A t \in DOMAIN tracedFlows :
       /\ CallbackCounts(t)
            => carriers[tracedFlows[t].lock].mu # unblockerHolder(t)
       /\ CallbackLoses(t)
            => carriers' = carriers /\ tracedFlows'[t].unblocker = "done"]_vars

\* C31 amended: the callback that won the compare-and-swap changes
\* activeRequests and the wait-group counter only while it holds the carrier
\* mutex, which it frees in the same step; no step of the callback touches
\* another carrier; a callback that lost changes nothing and ends
C31_UnblockerLocksThenCounts ==
  [][\A t \in DOMAIN tracedFlows :
       /\ CallbackCounts(t)
            => /\ carriers[tracedFlows[t].lock].mu = unblockerHolder(t)
               /\ carriers'[tracedFlows[t].lock].mu = Nil
       /\ (/\ tracedFlows[t].unblocker \in {"locking", "locked"}
           /\ tracedFlows'[t].unblocker # tracedFlows[t].unblocker)
            => \A o \in DOMAIN carriers :
                  o # tracedFlows[t].lock => carriers'[o] = carriers[o]
       /\ CallbackLoses(t)
            => carriers' = carriers /\ tracedFlows'[t].unblocker = "done"]_vars

\* the callback of a traced flow holds the mutex of its carrier and has not
\* yet touched the counters: the request it unblocks is still counted
C31_Witness ==
  \E t \in DOMAIN tracedFlows :
     /\ tracedFlows[t].unblocker = "locked"
     /\ ~tracedFlows[t].isActive
     /\ carriers[tracedFlows[t].lock].mu = unblockerHolder(t)
     /\ carriers[tracedFlows[t].lock].activeRequests = 1
     /\ carriers[tracedFlows[t].lock].wg = 1

\* C32: a worker that waits on the wait-group holds no carrier mutex, and a
\* worker holds the mutex of its carrier only from the return of mu.Lock() on;
\* and a lock without FIN or RST that has reached mu.Lock() returns its
\* handle, also while a termination lock of the flow is waiting at the gate,
\* as long as every handle is unlocked
C32_NoDeadlockBetweenGateAndMutex ==
  /\ [](\A w \in Workers, c \in DOMAIN carriers :
          carriers[c].mu = w
          => workers[w].pc \in {"held", "panicked"} /\ workers[w].carrier = c)
  /\ \A w \in Workers :
        (workers[w].pc = "acquire"
           /\ ~isConnectionTermination(workers[w].tcpFlags))
        ~> workers[w].pc = "held"

\* a termination lock waits at the gate for a token that is out while another
\* worker holds the handle of a PSH|ACK segment on the same carrier
C32_Witness ==
  \E w1 \in Workers, w2 \in Workers :
     /\ workers[w1].pc = "wait"
     /\ carriers[workers[w1].carrier].wg > 0
     /\ workers[w2].pc = "held"
     /\ ~isConnectionTermination(workers[w2].tcpFlags)
     /\ workers[w2].carrier = workers[w1].carrier
     /\ carriers[workers[w2].carrier].mu = w2

\* the traced flows in the sub-tree of flowID
SubTreeFlows(flowID) ==
  LET stsm == flowToStreamToSequenceMap[flowID]
  IN  IF stsm = Nil
      THEN {}
      ELSE UNION { { stsms[stsm][s][k] : k \in DOMAIN stsms[stsm][s] } :
                   s \in DOMAIN stsms[stsm] }

\* C33: in the step in which an untrackConnection called for carrier c of
\* flow F returns without panic, the index has no entry for F, the carrier map
\* has none either, activeRequests of c is <= 0, and every traced flow that
\* was in the sub-tree of F is inactive and its trace id is not in the trace
\* registry
C33_UntrackTeardown ==
  [][\A c \in DOMAIN carriers :
       UntrackCompleted(c)
       => /\ flowToStreamToSequenceMap'[carriers[c].flowID] = Nil
          /\ MutexMap'[carriers[c].flowID] = Nil
          /\ carriers'[c].activeRequests <= 0
          /\ \A t \in SubTreeFlows(carriers[c].flowID) :
                /\ ~tracedFlows'[t].isActive
                /\ tracedFlows[t].ts.traceID \notin traceToHttpRequestMap']_vars

C35_CancelledContextAtEntry ==
  /\ [][\A w \in Workers :
          (ctxDone /\ workers[w].pc = "idle" /\ workers'[w].pc # "idle")
          => workers'[w].pc = "acquire"]_vars
  /\ [](\A w \in Workers :
          (/\ workers[w].pc = "held"
           /\ ctxDone
           /\ carriers[workers[w].carrier].activeRequests = 0
           /\ ~carriers[workers[w].carrier].released)
          => LET wk == workers[w]
                 c == wk.carrier
                 h == UnlockAndReleaseFN(Heap, wk.flowID, c)
                 won == [releasedCompareAndSwap(Heap, c).h EXCEPT
                           !.released = TRUE,
                           !.releaseWins[c] = Min(@ + 1, 2)]
             IN  /\ h.released
                 /\ h.untrackTimers = untrackTimers
                 /\ h.untracks[c] = Min(untracks[c] + 1, 2)
                 /\ h.ftstsm[wk.flowID] = Nil
                 /\ h.MutexMap[wk.flowID] = Nil
                 /\ h.carriers[c].mu = Nil
                 /\ won.carriers[c].mu = w
                 /\ h = _unlock(untrackConnection(won, wk.flowID, c), c))

\* after cancellation a FIN|ACK lock got its handle although a token is out;
\* the carrier was never released, has no request in flight and its flow has
\* a sub-tree: its UnlockAndRelease wins and the sub-tree and the carrier are
\* gone when it returns
C35_Witness ==
  \E w \in Workers :
     LET wk == workers[w]
         c == wk.carrier
         h == UnlockAndReleaseFN(Heap, wk.flowID, c)
     IN  /\ wk.pc = "held"
         /\ isConnectionTermination(wk.tcpFlags)
         /\ ctxDone
         /\ carriers[c].wg > 0
         /\ carriers[c].activeRequests = 0
         /\ ~carriers[c].released
         /\ untrackTimers[c] = "none"
         /\ MutexMap[wk.flowID] = c
         /\ flowToStreamToSequenceMap[wk.flowID] # Nil
         /\ h.released
         /\ h.untrackTimers[c] = "none"
         /\ h.ftstsm[wk.flowID] = Nil
         /\ h.MutexMap[wk.flowID] = Nil

\* the step calls wg.Done() on carrier c while its counter is 0: the drain
\* loop of the timer's untrackConnection, an unblocker callback, or a response
\* match of the holder
DoneAtZero(c) ==
  \/ untrackTimers[c] = "draining" /\ untrackTimers'[c] = "done"
  \/ \E t \in DOMAIN tracedFlows :
        /\ tracedFlows[t].lock = c
        /\ tracedFlows[t].unblocker \in {"locking", "locked"}
        /\ tracedFlows'[t].unblocker = "done"
        /\ carriers'[c].activeRequests >= 0
        /\ carriers[c].wg = 0
  \/ \E w \in Workers :
        /\ workers[w].pc = "held"
        /\ workers[w].carrier = c
        /\ workers'[w].pc = "panicked"
        /\ carriers[c].wg = 0

\* C36: the wait-group counter of a carrier is never negative, and no step
\* calls wg.Done() on a counter that is 0
C36_WaitGroupNeverUnderflows ==
  /\ [](\A c \in DOMAIN carriers : carriers[c].wg >= 0)
  /\ [][\A c \in DOMAIN carriers : ~DoneAtZero(c)]_vars

\* C37: whenever the lookup of a held handle reports a stream as found, the
\* traced flow it returns is not nil
C37_FoundImpliesPresent ==
  \A w \in Workers, s \in Streams :
     workers[w].pc = "held"
     => LET found == tracedFlowProvider(Heap, workers[w].stsm,
                                        workers[w].ref, s)
        IN  found.ok => found.tf # Nil

\* untrackConnection has been called for carrier c and has returned
Untracked(c) ==
  /\ untracks[c] >= 1
  /\ untrackTimers[c] \notin {"del", "drain", "draining"}

\* the callback of the unblocker of traced flow t reaches its end in the step
UnblockerActs(t) ==
  /\ tracedFlows[t].unblocker \in {"locking", "locked"}
  /\ tracedFlows'[t].unblocker = "done"

\* C38: once untrackConnection has completed for a carrier, no traced flow
\* created on it is still active or has its unblocker armed, and no unblocker
\* callback of such a traced flow changes activeRequests or the wait-group of
\* the carrier
C38_NoUnblockerAfterUntrack ==
  /\ [](\A t \in DOMAIN tracedFlows :
          Untracked(tracedFlows[t].lock)
          => /\ ~tracedFlows[t].isActive
             /\ tracedFlows[t].unblocker # "armed")
  /\ [][\A t \in DOMAIN tracedFlows :
          Untracked(tracedFlows[t].lock) /\ UnblockerActs(t)
          => /\ carriers'[tracedFlows[t].lock].activeRequests
                  = carriers[tracedFlows[t].lock].activeRequests
             /\ carriers'[tracedFlows[t].lock].wg
                  = carriers[tracedFlows[t].lock].wg]_vars

\* the step belongs to an untrackConnection called for carrier c: a call in
\* one piece (the reaper, the release after cancellation) or a step of the
\* release winner's timer
UntrackStep(c) ==
  \/ untracks'[c] # untracks[c]
  \/ /\ untrackTimers[c] \in {"armed", "del", "drain", "draining"}
     /\ untrackTimers'[c] # untrackTimers[c]

\* the traced flows under flowID in the index after the step
SubTreeFlowsAfter(flowID) ==
  LET stsm == flowToStreamToSequenceMap'[flowID]
  IN  IF stsm = Nil
      THEN {}
      ELSE UNION { { stsms'[stsm][s][k] : k \in DOMAIN stsms'[stsm][s] } :
                   s \in DOMAIN stsms'[stsm] }

\* C39: a step of an untrackConnection called for carrier c of flow F, taken
\* when the carrier map holds another carrier for F, leaves that carrier in
\* the carrier map and leaves in the index every traced flow created on
\* another carrier than c
C39_UntrackOwnGeneration ==
  [][\A c \in DOMAIN carriers :
       (UntrackStep(c) /\ MutexMap[carriers[c].flowID] \notin {c, Nil})
       => /\ MutexMap'[carriers[c].flowID] = MutexMap[carriers[c].flowID]
          /\ \A t \in SubTreeFlows(carriers[c].flowID) :
                tracedFlows[t].lock # c
                => t \in SubTreeFlowsAfter(carriers[c].flowID)]_vars

\* C40: a handle that found no sub-tree for its flow when it acquired the
\* mutex reports every stream as not found, also in the heap its own request
\* loop leaves with the flow's sub-tree built; and its UnlockWithTraceAndSpan
\* for a segment with a request and a response on a stream leaves the heap
\* and returns the count that it does for the request alone
C40_LookupBoundAtLockTime ==
  \A w \in Workers :
     (workers[w].pc = "held" /\ workers[w].stsm = Nil)
     => LET wk == workers[w]
        IN  /\ \A s \in Streams :
                  ~tracedFlowProvider(Heap, wk.stsm, wk.ref, s).ok
            /\ \A s \in Streams, t1 \in Traces, t2 \in Traces,
                  tcpFlags \in SegmentFlags :
                  LET requestTS == [x \in {s} |-> t1]
                      responseTS == [x \in {s} |-> t2]
                      tracked == requestStreamsLoop(Heap, wk, <<s>>, requestTS)
                  IN  /\ tracked.ftstsm[wk.flowID] # Nil
                      /\ ~tracedFlowProvider(tracked, wk.stsm, wk.ref, s).ok
                      /\ UnlockWithTraceAndSpanFN(Heap, wk, tcpFlags, FALSE,
                                                  <<s>>, <<s>>, requestTS,
                                                  responseTS)
                           = UnlockWithTraceAndSpanFN(Heap, wk, tcpFlags,
                                                      FALSE, <<s>>, <<>>,
                                                      requestTS, EmptyMap)

\* a handle on a flow without sub-tree whose UnlockWithTraceAndSpan, given
\* the first request of the flow and its response in one segment, tracks the
\* request and leaves its token outstanding
C40_Witness ==
  \E w \in Workers :
     LET wk == workers[w]
         c == wk.carrier
         h == UnlockWithTraceAndSpanFN(Heap, wk, tcpPsh + tcpAck, FALSE,
                                       <<1>>, <<1>>, [x \in {1} |-> 1],
                                       [x \in {1} |-> 1])
         tf == Len(h.tracedFlows)
     IN  /\ FreshHandle(w)
         /\ wk.stsm = Nil
         /\ h.ftstsm[wk.flowID] # Nil
         /\ tf = 1
         /\ h.tracedFlows[tf].isActive
         /\ h.tracedFlows[tf].unblocker = "armed"
         /\ h.carriers[c].activeRequests = 1
         /\ h.carriers[c].wg = 1
         /\ h.activeRequests = 1

====
